---- MODULE Spec2Model ----
(***************************************************************************)
(* Ingestion pipeline of MiniStateAffairs: the videos table with its       *)
(* conditional status updates, the per-video pipeline of IngestService     *)
(* (uploadStep, transcribeStep, handleFailure), the transfer into S3, the  *)
(* error classification of utils/http.ts and the scheduled job that drives *)
(* recovery, discovery, the queue and the processing loop.                 *)
(***************************************************************************)
EXTENDS Integers, Sequences, FiniteSets, TLC

(***************************************************************************)
(* Bounds of the model                                                     *)
(***************************************************************************)
\* number of concurrent job processes
NumWorkers == 2
\* number of recordings the government site can list
NumVideos == 3
\* the retry ceiling the job is configured with (options.maxRetries)
maxRetries == 2
\* the clock stops advancing at this hour
MaxClock == 24
\* hours that pass in one step of the clock
TickHours == 12

Videos == 1..NumVideos
Workers == 1..NumWorkers

(***************************************************************************)
(* db/types.ts                                                             *)
(***************************************************************************)
PENDING == "pending"
DOWNLOADING == "downloading"
DOWNLOADED == "downloaded"
TRANSCRIBING == "transcribing"
COMPLETED == "completed"
FAILED == "failed"
PERMANENT_FAILURE == "permanent_failure"

VideoStatus ==
  {"queued", PENDING, DOWNLOADING, DOWNLOADED, TRANSCRIBING, COMPLETED,
   FAILED, PERMANENT_FAILURE}

VideoSource == {"house", "senate"}

NULL == "NULL"

\* titles a listing can carry for a recording
Titles == {"title-a", "title-b"}

\* identity of a recording: the last one is a senate hearing, the others
\* are house hearings (state is always MI)
SourceOf(v) == IF v = NumVideos /\ NumVideos > 1 THEN "senate" ELSE "house"

\* hearing_date of a recording; later ids are earlier hearings
HearingDate(v) == NumVideos - v

\* the value uploadVideoFromUrl returns for a recording (presigned URL of
\* its object key)
S3UrlOf(v) == "s3-url"

(***************************************************************************)
(* Error values: an optional structured status code (0 when absent) and    *)
(* the message as a sequence of tokens, words or numbers.                  *)
(***************************************************************************)
Word(s) == [w |-> s, n |-> -1]
Num(k) == [w |-> "#", n |-> k]
IsNum(t) == t.w = "#"

MkError(code, msg) == [status |-> code, message |-> msg]
NoError == MkError(0, <<>>)

\* case folding of the words that occur in messages
Fold(s) ==
  CASE s = "HTTP" -> "http"
    [] s = "Error" -> "error"
    [] s = "Status" -> "status"
    [] s = "ECONNRESET" -> "econnreset"
    [] s = "ETIMEDOUT" -> "etimedout"
    [] s = "ENOTFOUND" -> "enotfound"
    [] s = "ECONNREFUSED" -> "econnrefused"
    [] s = "EAI_AGAIN" -> "eai_again"
    [] OTHER -> s

\* msg contains the words of pat, case-insensitively, at position i
MatchesAt(msg, pat, i) ==
  /\ i + Len(pat) - 1 <= Len(msg)
  /\ \A j \in 1..Len(pat) :
       /\ ~IsNum(msg[i + j - 1])
       /\ Fold(msg[i + j - 1].w) = pat[j]

ContainsWords(msg, pat) == \E i \in 1..Len(msg) : MatchesAt(msg, pat, i)

\* message.match(/status (\d+)/i): the number after the first "status"
\* that is followed by a number, 0 when there is none
StatusInMessage(msg) ==
  LET hits == {i \in 1..(Len(msg) - 1) :
                 /\ ~IsNum(msg[i])
                 /\ Fold(msg[i].w) = "status"
                 /\ IsNum(msg[i + 1])}
  IN IF hits = {} THEN 0
     ELSE msg[(CHOOSE i \in hits : \A j \in hits : i <= j) + 1].n

\* the decimal digits of k start with the digits of p
RECURSIVE DigitsStartWith(_, _)
DigitsStartWith(k, p) ==
  IF k < p THEN FALSE
  ELSE IF k = p THEN TRUE
  ELSE DigitsStartWith(k \div 10, p)

\* /HTTP Error 40(0|1|3|4|10)/i
HasFatalMarker(msg) ==
  \E i \in 1..(Len(msg) - 2) :
    /\ MatchesAt(msg, <<"http", "error">>, i)
    /\ IsNum(msg[i + 2])
    /\ \E p \in {400, 401, 403, 404, 4010} : DigitsStartWith(msg[i + 2].n, p)

networkErrors ==
  {<<"econnreset">>, <<"etimedout">>, <<"enotfound">>, <<"econnrefused">>,
   <<"eai_again">>, <<"fetch", "failed">>, <<"socket", "hang", "up">>}

\* the list without the code for a request the client closed
retryable4xxWithout499 == {408, 425, 429}

retryable4xx == {408, 425, 429, 499}

isRetryable(error) ==
  LET message == error.message
      statusCode == IF error.status = 0 THEN StatusInMessage(message)
                    ELSE error.status
  IN IF statusCode > 0 /\ statusCode \in retryable4xx THEN TRUE
     ELSE IF statusCode > 0 /\ statusCode >= 500 /\ statusCode < 600 THEN TRUE
     ELSE IF statusCode > 0 /\ statusCode >= 400 /\ statusCode < 500 THEN FALSE
     ELSE IF HasFatalMarker(message) THEN FALSE
     ELSE IF \E netErr \in networkErrors : ContainsWords(message, netErr)
          THEN TRUE
     ELSE FALSE

\* the error fetchWithRetry throws for a response with a status that is not
\* ok, once retryWithBackoff has given up
HttpError(status) ==
  IF isRetryable(MkError(status, <<>>))
  THEN MkError(0, <<Word("Retryable"), Word("HTTP"), Word("error"),
                    Num(status), Word("for"), Word("url")>>)
  ELSE MkError(0, <<Word("Non-retryable"), Word("HTTP"), Word("error"),
                    Num(status), Word("for"), Word("url")>>)

\* the TypeError fetch throws when the request never reaches the server
FetchFailed == MkError(0, <<Word("fetch"), Word("failed")>>)

(***************************************************************************)
(* db/videoRepository.ts: the videos table                                 *)
(***************************************************************************)
\* no row for this recording yet
AbsentRow ==
  [present |-> FALSE, title |-> NULL, status |-> PENDING, s3_key |-> NULL,
   retry_count |-> 0, last_error |-> NULL, updated_at |-> 0]

\* INSERT ... ON CONFLICT (state, source, external_id) DO UPDATE; the title
\* stands for the descriptive columns slug, title and the two URLs
upsertDiscoveredVideo(row, title, t) ==
  IF row.present
  THEN [row EXCEPT !.title = title, !.updated_at = t]
  ELSE [present |-> TRUE, title |-> title, status |-> PENDING,
        s3_key |-> NULL, retry_count |-> 0, last_error |-> NULL,
        updated_at |-> t]

\* a variant of the options in which every call passes the storage key
OptionsWithKey(s3Key, lastError, incrementRetry) ==
  [s3Key |-> "s3-url", lastError |-> lastError,
   incrementRetry |-> incrementRetry]

\* options of updateStatus; an option left out is NULL / FALSE
Options(s3Key, lastError, incrementRetry) ==
  [s3Key |-> s3Key, lastError |-> lastError, incrementRetry |-> incrementRetry]

\* a variant of updateStatus that clears retry_count when it does not
\* increment it
updateStatusClearingRetry(row, status, options, t) ==
  [row EXCEPT
     !.status = status,
     !.s3_key = IF options.s3Key # NULL THEN options.s3Key ELSE @,
     !.last_error = options.lastError,
     !.retry_count = IF options.incrementRetry THEN @ + 1 ELSE 0,
     !.updated_at = t]

\* a variant whose SET clause writes the s3Key option as given, without COALESCE
updateStatusOverwritingKey(row, status, options, t) ==
  [row EXCEPT
     !.status = status,
     !.s3_key = options.s3Key,
     !.last_error = options.lastError,
     !.retry_count = @ + (IF options.incrementRetry THEN 1 ELSE 0),
     !.updated_at = t]

\* the SET clause of updateStatus
updateStatus(row, status, options, t) ==
  [row EXCEPT
     !.status = status,
     !.s3_key = IF options.s3Key # NULL THEN options.s3Key ELSE @,
     !.last_error = options.lastError,
     !.retry_count = @ + (IF options.incrementRetry THEN 1 ELSE 0),
     !.updated_at = t]

\* allowedStatuses left out of the options: no condition on the status
AnyStatus == VideoStatus

\* the condition of a claim: the row is in one of the allowed statuses and
\* below the retry ceiling
ClaimCondition(row, allowedStatuses, retryCeiling) ==
  /\ row.present
  /\ row.status \in allowedStatuses
  /\ row.retry_count < retryCeiling

\* the condition of a finalize: the row is in one of the allowed statuses
FinalizeCondition(row, allowedStatuses) ==
  /\ row.present
  /\ row.status \in allowedStatuses

resetRetryCount(row, t) == [row EXCEPT !.retry_count = 0, !.updated_at = t]

\* the rows the UPDATE of resetStuckVideos matches
StuckVideos(tbl, source, threshold, t) ==
  {v \in Videos :
     /\ tbl[v].present
     /\ SourceOf(v) = source
     /\ tbl[v].status \in {DOWNLOADING, TRANSCRIBING}
     /\ tbl[v].updated_at < t - threshold}

\* a variant of the stuck reset that is not scoped to the source
resetStuckVideosOfAnySource(tbl, source, threshold, t) ==
  [v \in Videos |->
     IF /\ tbl[v].present
        /\ tbl[v].status \in {DOWNLOADING, TRANSCRIBING}
        /\ tbl[v].updated_at < t - threshold
     THEN [tbl[v] EXCEPT !.status = FAILED, !.last_error = "Auto-Reset",
                         !.updated_at = t]
     ELSE tbl[v]]

\* a variant of the stuck reset that counts the reset as a retry
resetStuckVideosCountingRetry(tbl, source, threshold, t) ==
  [v \in Videos |->
     IF v \in StuckVideos(tbl, source, threshold, t)
     THEN [tbl[v] EXCEPT !.status = FAILED, !.last_error = "Auto-Reset",
                         !.retry_count = @ + 1, !.updated_at = t]
     ELSE tbl[v]]

resetStuckVideos(tbl, source, threshold, t) ==
  [v \in Videos |->
     IF v \in StuckVideos(tbl, source, threshold, t)
     THEN [tbl[v] EXCEPT !.status = FAILED, !.last_error = "Auto-Reset",
                         !.updated_at = t]
     ELSE tbl[v]]

\* the elements of S ordered by hearing_date ascending
RECURSIVE OrderByHearingDate(_)
OrderByHearingDate(S) ==
  IF S = {} THEN <<>>
  ELSE LET first == CHOOSE v \in S :
                      \A u \in S : HearingDate(v) <= HearingDate(u)
       IN <<first>> \o OrderByHearingDate(S \ {first})

\* LIMIT of the queue query
queueLimit == 1000

Limit(q, n) == IF Len(q) <= n THEN q ELSE SubSeq(q, 1, n)

\* a variant of the queue query that still returns a row at the ceiling
findUnfinishedWorkUpToCeiling(tbl, source, limit, retryLimit) ==
  Limit(OrderByHearingDate(
          {v \in Videos :
             /\ tbl[v].present
             /\ SourceOf(v) = source
             /\ tbl[v].status \notin {COMPLETED, PERMANENT_FAILURE}
             /\ tbl[v].retry_count <= retryLimit}),
        limit)

\* a variant of the queue query that leaves completed videos in
findUnfinishedWorkWithCompleted(tbl, source, limit, retryLimit) ==
  Limit(OrderByHearingDate(
          {v \in Videos :
             /\ tbl[v].present
             /\ SourceOf(v) = source
             /\ tbl[v].status # PERMANENT_FAILURE
             /\ tbl[v].retry_count < retryLimit}),
        limit)

findUnfinishedWorkByStateAndSource(tbl, source, limit, retryLimit) ==
  Limit(OrderByHearingDate(
          {v \in Videos :
             /\ tbl[v].present
             /\ SourceOf(v) = source
             /\ tbl[v].status \notin {COMPLETED, PERMANENT_FAILURE}
             /\ tbl[v].retry_count < retryLimit}),
        limit)

(***************************************************************************)
(* Errors the stages of the pipeline can end with                          *)
(***************************************************************************)
\* uploadStep, lines 195-199: the pre-flight failure wrapped with the slug
PreflightError(e) ==
  MkError(0, <<Word("[slug]"), Word("Pre-flight"), Word("check"),
               Word("failed."), Word("URL"), Word("unreachable:")>>
             \o e.message)

\* statuses a HEAD request of the source can be answered with, besides 2xx
PreflightStatuses == {404, 429, 503}

PreflightErrors ==
  {PreflightError(HttpError(st)) : st \in PreflightStatuses}
    \cup {PreflightError(FetchFailed)}

\* objectExists rethrows an S3ServiceException that is not a 404
S3Errors == {MkError(503, <<Word("Service"), Word("Unavailable")>>)}

\* uploadVideoFromUrl, lines 174-217: the readiness gate rejects
GateErrors ==
  {MkError(0, <<Word("Process"), Word("exited"), Word("early"),
                Word("(code"), Num(1), Word(")")>>),
   MkError(0, <<Word("Stream"), Word("timeout")>>)}

\* uploadVideoFromUrl, lines 305-310: the failure wrapped by the catch
UploadFailed(msg) == MkError(0, <<Word("[Upload"), Word("Failed]")>> \o msg)

\* what yt-dlp wrote to stderr before it failed
YtDlpStderr ==
  {<<Word("ERROR:"), Word("HTTP"), Word("Error"), Num(404), Word("Not"),
     Word("Found")>>}

\* uploadVideoFromUrl, lines 252-271 and upload.done(): failures after the
\* readiness gate
StreamErrors ==
  {UploadFailed(<<Word("yt-dlp"), Word("failed"), Word("(code"), Num(1),
                  Word("):")>> \o stderr) : stderr \in YtDlpStderr}
    \cup
  {UploadFailed(<<Word("Stream"), Word("finished"), Word("but"),
                  Word("file"), Word("too"), Word("small"), Word("("),
                  Num(2), Word("MB)."), Word("Likely"), Word("a"), Num(403),
                  Word("or"), Word("error"), Word("page.")>>),
   UploadFailed(<<Word("socket"), Word("hang"), Word("up")>>)}

\* transcribeFromUrl throws, or the request to the provider fails
TranscribeErrors ==
  {MkError(0, <<Word("Deepgram"), Word("error:"), Word("{}")>>),
   FetchFailed}

\* the text of a transcription result: blank or not
TranscriptTexts == {"blank", "text"}

(***************************************************************************)
(* State                                                                   *)
(***************************************************************************)
VARIABLES
  rows,           \* the videos table
  transcripts,    \* the transcripts table: "none", or the text of the row
  s3,             \* the object at each recording's key
  now,            \* NOW(), in hours
  site,           \* the listings the government sites can serve
  pc,             \* where each job process stands
  src,            \* the source the job runs for
  recoveredCount, \* runScheduledJob: result of recoverStuckJobs
  disc,           \* discoverNewVideos: listed recordings still to upsert
  queue,          \* runScheduledJob: videos of the queue still to process
  cur,            \* processFullPipeline: videoId
  s3Url,          \* processFullPipeline: s3Url
  err,            \* the error caught by uploadStep / transcribeStep
  holds,          \* the process made the last change of status of its video
                  \* and that change was a successful claim
  path,           \* the status of the video when processFullPipeline
                  \* was called, then the statuses that call wrote
  cls,            \* isRetryable: the error given and the answer
  rt,             \* fetchWithRetry: options, position in the loop of
                  \* retryWithBackoff, responses, errors and delays so far
  xf,             \* uploadVideoFromUrl: the fetch process, the readiness
                  \* gate, the upload, the object at the destination key
  jobRun,         \* per process: the JobRun record of its run, the counts
                  \* of its JobReporter, the queue as read and the videos
                  \* handed to the pipeline so far
  sentinel        \* runSentinelCheck: what each of its probes meets, and
                  \* how its latest call ended

vars ==
  <<rows, transcripts, s3, now, site, pc, src, recoveredCount, disc, queue, cur,
    s3Url, err, holds, path, cls, rt, xf, jobRun, sentinel>>

\* what no step of a job changes: the listings, and the state of the
\* utilities when they are exercised on their own
envVars == <<site, cls, rt, xf, sentinel>>
storeVars == <<rows, transcripts, s3, envVars>>

\* isRetryable has not been called
IdleCls == [error |-> NoError, result |-> "none"]

\* fetchWithRetry has not been called
IdleRt ==
  [maxAttempts |-> 0, baseDelayMs |-> 0, maxDelayMs |-> 0, pc |-> "idle",
   attempt |-> 0, responses |-> <<>>, errors |-> <<>>, delays |-> <<>>,
   result |-> 0, thrown |-> NoError]

\* no object at the destination key
NoObject == [bytes |-> -1, code |-> -1]

\* uploadVideoFromUrl has not been called
IdleXf ==
  [pc |-> "idle", child |-> "none", code |-> -1, produced |-> 0,
   totalBytes |-> 0, upload |-> "none", closeSeen |-> FALSE,
   exitOk |-> FALSE, handlers |-> FALSE, killSent |-> FALSE,
   deleteIssued |-> FALSE, error |-> "none", object |-> NoObject,
   caller |-> "idle", calls |-> 0]

\* the stuck threshold of a VideoRepository constructed without one
defaultStuckThresholdHours == 10

\* no JobRun: the reporter has no runId; the option stuckThresholdHours of
\* runScheduledJob at its default
NoRun ==
  [status |-> "none", processed |-> 0, failed |-> 0, got |-> <<>>,
   handed |-> <<>>, escaped |-> FALSE, threw |-> FALSE, finalized |-> 0,
   errorSummary |-> NULL, caught |-> NULL, rethrown |-> NULL,
   stuckThresholdHours |-> defaultStuckThresholdHours]

runVars == <<src, recoveredCount, disc, queue, jobRun>>
itemVars == <<cur, s3Url, err, path>>

NoVideo == 0

\* hours after which the maintenance step of the job treats a claim as
\* abandoned (orchestrator.ts line 60)
recoverThresholdHours == 10

\* runSentinelCheck: the probes in the order of the code. The first four
\* throw, the probe of the transcription provider only warns
Probes == {"db", "schema", "s3", "ytdlp", "deepgram"}

Reachability == [Probes -> BOOLEAN]

\* runSentinelCheck with the probe of the object storage left out
sentinelOutcomeWithoutS3(up) ==
  IF ~up["db"] THEN "CRITICAL: Database unreachable"
  ELSE IF ~up["schema"] THEN "CRITICAL: schema is missing"
  ELSE IF ~up["ytdlp"] THEN "CRITICAL: yt-dlp unreachable"
  ELSE IF ~up["deepgram"] THEN "WARNING: Deepgram health check failed"
  ELSE "OK"

\* runSentinelCheck: the message of the error it throws, or how it returned
sentinelOutcome(up) ==
  IF ~up["db"] THEN "CRITICAL: Database unreachable"
  ELSE IF ~up["schema"] THEN "CRITICAL: schema is missing"
  ELSE IF ~up["s3"] THEN "CRITICAL: AWS S3 unreachable"
  ELSE IF ~up["ytdlp"] THEN "CRITICAL: yt-dlp unreachable"
  ELSE IF ~up["deepgram"] THEN "WARNING: Deepgram health check failed"
  ELSE "OK"

\* runSentinelCheck returned
SentinelReturns == {"OK", "WARNING: Deepgram health check failed"}

\* every probe succeeds, and the latest check returned without a warning
AllReachable == [up |-> [p \in Probes |-> TRUE], outcome |-> "OK"]

Init ==
  /\ rows = [v \in Videos |-> AbsentRow]
  /\ transcripts = [v \in Videos |-> "none"]
  /\ s3 = [v \in Videos |-> "absent"]
  /\ now = 0
  /\ site = {[id |-> 1, title |-> "title-a"]}
  /\ pc = [w \in Workers |-> "idle"]
  /\ src = [w \in Workers |-> "house"]
  /\ recoveredCount = [w \in Workers |-> 0]
  /\ disc = [w \in Workers |-> <<>>]
  /\ queue = [w \in Workers |-> <<>>]
  /\ cur = [w \in Workers |-> NoVideo]
  /\ s3Url = [w \in Workers |-> NULL]
  /\ err = [w \in Workers |-> NoError]
  /\ holds = [w \in Workers |-> FALSE]
  /\ path = [w \in Workers |-> <<>>]
  /\ cls = IdleCls
  /\ rt = IdleRt
  /\ xf = IdleXf
  /\ sentinel = AllReachable
  /\ jobRun = [w \in Workers |-> NoRun]

\* the job processes of this specification
Procs == DOMAIN pc

\* a write to the status of video v by process w, other than a claim, ends
\* what any process held on v
Released(w, v) ==
  [x \in Procs |-> IF x = w \/ cur[x] = v THEN FALSE ELSE holds[x]]

Goto(w, label) == pc' = [pc EXCEPT ![w] = label]

\* the locals of processFullPipeline once the call is over
ItemReturned(w, label) ==
  /\ Goto(w, label)
  /\ s3Url' = [s3Url EXCEPT ![w] = NULL]
  /\ err' = [err EXCEPT ![w] = NoError]

(***************************************************************************)
(* jobs/orchestrator.ts: runScheduledJob                                   *)
(***************************************************************************)
\* the reporter of process w records run; without a runId, or once the run
\* is finalized, there is nothing it writes to
Report(w, run) ==
  jobRun' = [jobRun EXCEPT ![w] = IF @.status # "none" THEN run ELSE @]

\* where the loop goes after the catch block of an item, had the block
\* rethrown
afterItemCatchRethrown == "critical"

\* where the loop goes after the catch block of an item
afterItemCatch == "loop"

\* finishRun: the final status of the JobRun
finalStatus(error, failed) ==
  IF error THEN "failed"
  ELSE IF failed > 0 THEN "completed_with_errors"
  ELSE "completed"

\* a job is started for a source: runSentinelCheck returns, then
\* reporter.startRun creates the JobRun
StartRun(w) ==
  /\ pc[w] = "idle"
  /\ sentinelOutcome(sentinel.up) \in SentinelReturns
  /\ sentinel' = [sentinel EXCEPT !.outcome = sentinelOutcome(sentinel.up)]
  /\ \E source \in {SourceOf(l.id) : l \in site} :
       src' = [src EXCEPT ![w] = source]
  /\ jobRun' = [jobRun EXCEPT ![w] = [NoRun EXCEPT !.status = "running"]]
  /\ Goto(w, "recover")
  /\ UNCHANGED <<rows, transcripts, s3, site, cls, rt, xf, now,
                 recoveredCount, disc, queue, itemVars, holds>>

\* lines 57-69: recoverStuckJobs(state, source, 10)
RecoverStuck(w) ==
  /\ pc[w] = "recover"
  /\ LET stuck == StuckVideos(rows, src[w], recoverThresholdHours, now)
     IN /\ rows' = resetStuckVideos(rows, src[w], recoverThresholdHours, now)
        /\ recoveredCount' = [recoveredCount EXCEPT ![w] = Cardinality(stuck)]
        /\ holds' = [x \in Procs |->
                       IF cur[x] \in stuck THEN FALSE ELSE holds[x]]
  /\ Goto(w, "discover")
  /\ UNCHANGED <<transcripts, s3, envVars, now, src, disc, queue, itemVars,
                 jobRun>>

\* the listing as the sequence of its entries, by id
RECURSIVE ListingOf(_, _)
ListingOf(L, title) ==
  IF L = {} THEN <<>>
  ELSE LET v == CHOOSE x \in L : \A y \in L : x <= y
       IN <<[id |-> v, title |-> title[v]]>> \o ListingOf(L \ {v}, title)

\* discoverNewVideos, lines 66-72: the scraper of the source returns the
\* recordings the site lists
Discover(w) ==
  /\ pc[w] = "discover"
  /\ \E L \in SUBSET {l.id : l \in {x \in site : SourceOf(x.id) = src[w]}} :
       \E title \in [L -> Titles] :
         /\ \A v \in L : [id |-> v, title |-> title[v]] \in site
         /\ disc' = [disc EXCEPT ![w] = ListingOf(L, title)]
         /\ Goto(w, IF L = {} THEN "getQueue" ELSE "upsert")
  /\ recoveredCount' = [recoveredCount EXCEPT ![w] = 0]
  /\ UNCHANGED <<storeVars, now, src, queue, itemVars, holds, jobRun>>

\* discoverNewVideos, lines 75-92: one upsertDiscoveredVideo of the loop
Upsert(w) ==
  /\ pc[w] = "upsert"
  /\ LET v == Head(disc[w])
     IN rows' = [rows EXCEPT
                   ![v.id] = upsertDiscoveredVideo(rows[v.id], v.title, now)]
  /\ disc' = [disc EXCEPT ![w] = Tail(disc[w])]
  /\ Goto(w, IF Len(disc[w]) = 1 THEN "getQueue" ELSE "upsert")
  /\ UNCHANGED <<transcripts, s3, envVars, now, src, recoveredCount, queue,
                 itemVars, holds, jobRun>>

\* line 82: getQueue
GetQueue(w) ==
  /\ pc[w] = "getQueue"
  /\ LET pendingVideos ==
           findUnfinishedWorkByStateAndSource(rows, src[w], queueLimit,
                                              maxRetries)
     IN /\ queue' = [queue EXCEPT ![w] = pendingVideos]
        /\ Report(w, [jobRun[w] EXCEPT !.got = pendingVideos])
  /\ Goto(w, "loop")
  /\ UNCHANGED <<storeVars, now, src, recoveredCount, disc, itemVars, holds>>

\* processFullPipeline(v) is called
CallPipeline(w, v) ==
  /\ cur' = [cur EXCEPT ![w] = v]
  /\ path' = [path EXCEPT ![w] = <<rows[v].status>>]
  /\ Goto(w, "claimDownloading")
  /\ UNCHANGED <<s3Url, err>>

\* lines 89-91: the loop takes the next video of the queue
NextItem(w) ==
  /\ pc[w] = "loop"
  /\ queue[w] # <<>>
  /\ CallPipeline(w, Head(queue[w]))
  /\ queue' = [queue EXCEPT ![w] = Tail(queue[w])]
  /\ Report(w, [jobRun[w] EXCEPT !.handed = Append(@, Head(queue[w]))])
  /\ UNCHANGED <<storeVars, now, src, recoveredCount, disc, holds>>

\* line 92: the pipeline returned; reporter.incrementProcessed
IncrementProcessed(w) ==
  /\ pc[w] = "incrementProcessed"
  /\ Goto(w, "loop")
  /\ cur' = [cur EXCEPT ![w] = NoVideo]
  /\ path' = [path EXCEPT ![w] = <<>>]
  /\ Report(w, [jobRun[w] EXCEPT !.processed = @ + 1])
  /\ UNCHANGED <<storeVars, now, src, recoveredCount, disc, queue, s3Url, err,
                 holds>>

\* lines 93-102: the pipeline threw; reporter.incrementFailed, reporter.log,
\* and the loop goes on
IncrementFailed(w) ==
  /\ pc[w] = "incrementFailed"
  /\ Goto(w, afterItemCatch)
  /\ cur' = [cur EXCEPT ![w] = NoVideo]
  /\ path' = [path EXCEPT ![w] = <<>>]
  /\ Report(w, [jobRun[w] EXCEPT !.failed = @ + 1, !.threw = TRUE])
  /\ UNCHANGED <<storeVars, now, src, recoveredCount, disc, queue, s3Url, err,
                 holds>>

\* line 105: the queue is exhausted; reporter.finishRun()
\* finishRun up to finalizeJobRun: the status from the error and the failed
\* count, the error message as error_summary, one more finalizing update
finalizeJobRun(run, error) ==
  [run EXCEPT !.status = finalStatus(error # NULL, run.failed),
              !.errorSummary = error,
              !.finalized = @ + 1]

FinishRun(w) ==
  /\ pc[w] = "loop"
  /\ queue[w] = <<>>
  /\ Goto(w, "idle")
  /\ Report(w, finalizeJobRun(jobRun[w], NULL))
  /\ UNCHANGED <<storeVars, now, src, recoveredCount, disc, queue, itemVars,
                 holds>>

(***************************************************************************)
(* services/ingestService.ts: uploadStep                                   *)
(***************************************************************************)
\* a variant of the claim into downloading that also admits a row that is
\* already downloading
uploadClaimStatusesWithDownloading == {PENDING, FAILED, DOWNLOADING}

\* a variant of the claim into downloading that also admits a completed row
uploadClaimStatusesWithCompleted == {PENDING, FAILED, COMPLETED}

\* a variant of the claim into transcribing that also admits a row that is
\* already transcribing
transcribeClaimStatusesWithTranscribing == {DOWNLOADED, FAILED, TRANSCRIBING}

\* a variant of the failure handler that does not record a failure of the
\* transcription stage
failureStatusesWithoutTranscribing == {PENDING, DOWNLOADING, DOWNLOADED}

\* allowedStatuses of the calls of updateStatus
uploadClaimStatuses == {PENDING, FAILED}
uploadFinalizeStatuses == {DOWNLOADING}
transcribeClaimStatuses == {DOWNLOADED, FAILED}
transcribeFinalizeStatuses == {TRANSCRIBING}
\* a variant that lets a failure be recorded on a row already failed
failureStatusesWithFailed ==
  {PENDING, DOWNLOADING, DOWNLOADED, TRANSCRIBING, FAILED}
failureStatuses == {PENDING, DOWNLOADING, DOWNLOADED, TRANSCRIBING}
\* the call of lines 293-299 passes no allowedStatuses
fastTrackStatuses == AnyStatus

\* a variant that also trusts the key of a video another process is downloading
alreadyInS3StatusesWithDownloading ==
  {DOWNLOADING, DOWNLOADED, TRANSCRIBING, COMPLETED}

\* statuses with which a failed claim still yields the stored key
alreadyInS3Statuses == {DOWNLOADED, TRANSCRIBING, COMPLETED}

\* process w writes row r for its video
WriteRow(w, r) ==
  /\ rows' = [rows EXCEPT ![cur[w]] = r]
  /\ path' = [path EXCEPT ![w] = Append(path[w], r.status)]

\* lines 137-146: the claim into downloading
ClaimDownloading(w) ==
  /\ pc[w] = "claimDownloading"
  /\ IF ClaimCondition(rows[cur[w]], uploadClaimStatuses, maxRetries)
     THEN /\ WriteRow(w, updateStatus(rows[cur[w]], DOWNLOADING,
                                      Options(NULL, NULL, FALSE), now))
          /\ holds' = [holds EXCEPT ![w] = TRUE]
          /\ Goto(w, "preflight")
     ELSE /\ Goto(w, "findById")
          /\ UNCHANGED <<rows, path, holds>>
  /\ UNCHANGED <<transcripts, s3, envVars, now, runVars, cur, s3Url, err>>

\* lines 146-173: the claim returned no row
FindById(w) ==
  /\ pc[w] = "findById"
  /\ LET video == rows[cur[w]]
     IN IF ~video.present
        THEN ItemReturned(w, "incrementProcessed")
        ELSE IF video.s3_key # NULL /\ video.status \in alreadyInS3Statuses
        THEN /\ s3Url' = [s3Url EXCEPT ![w] = video.s3_key]
             /\ Goto(w, "claimTranscribing")
             /\ UNCHANGED err
        ELSE ItemReturned(w, "incrementProcessed")
  /\ UNCHANGED <<storeVars, now, runVars, cur, path, holds>>

\* lines 184-194: the HEAD request of the source answers with 2xx
PreflightOk(w) ==
  /\ pc[w] = "preflight"
  /\ Goto(w, "objectExists")
  /\ UNCHANGED <<storeVars, now, runVars, itemVars, holds>>

\* lines 195-200: fetchWithRetry gave up
PreflightFails(w) ==
  /\ pc[w] = "preflight"
  /\ \E e \in PreflightErrors : err' = [err EXCEPT ![w] = e]
  /\ Goto(w, "handleFailure")
  /\ UNCHANGED <<storeVars, now, runVars, cur, s3Url, path, holds>>

(***************************************************************************)
(* clients/s3Client.ts: uploadVideoFromUrl                                 *)
(***************************************************************************)
\* lines 130-134: the idempotency check
ObjectExists(w) ==
  /\ pc[w] = "objectExists"
  /\ IF s3[cur[w]] # "absent"
     THEN /\ s3Url' = [s3Url EXCEPT ![w] = S3UrlOf(cur[w])]
          /\ Goto(w, "finalizeDownloaded")
     ELSE /\ Goto(w, "stream")
          /\ UNCHANGED s3Url
  /\ UNCHANGED <<storeVars, now, runVars, cur, err, path, holds>>

\* lines 55-62: the HEAD of the object fails with something else than 404
ObjectExistsFails(w) ==
  /\ pc[w] = "objectExists"
  /\ \E e \in S3Errors : err' = [err EXCEPT ![w] = e]
  /\ Goto(w, "handleFailure")
  /\ UNCHANGED <<storeVars, now, runVars, cur, s3Url, path, holds>>

\* lines 174-217: the readiness gate rejects and no upload is started
GateFails(w) ==
  /\ pc[w] = "stream"
  /\ \E e \in GateErrors : err' = [err EXCEPT ![w] = e]
  /\ Goto(w, "handleFailure")
  /\ UNCHANGED <<storeVars, now, runVars, cur, s3Url, path, holds>>

\* lines 219-281: the upload completes and yt-dlp exits with a valid file
StreamOk(w) ==
  /\ pc[w] = "stream"
  /\ s3' = [s3 EXCEPT ![cur[w]] = "complete"]
  /\ s3Url' = [s3Url EXCEPT ![w] = S3UrlOf(cur[w])]
  /\ Goto(w, "finalizeDownloaded")
  /\ UNCHANGED <<rows, transcripts, envVars, now, runVars, cur, err, path, holds>>

\* lines 243-282: Promise.all rejects; the upload may have completed with
\* what yt-dlp had produced before the validation at its exit failed
StreamFails(w) ==
  /\ pc[w] = "stream"
  /\ \E e \in StreamErrors : err' = [err EXCEPT ![w] = e]
  /\ \E written \in BOOLEAN :
       s3' = IF written THEN [s3 EXCEPT ![cur[w]] = "partial"] ELSE s3
  /\ Goto(w, "cleanup")
  /\ UNCHANGED <<rows, transcripts, envVars, now, runVars, cur, s3Url, path, holds>>

\* lines 283-317: kill, abort, DeleteObjectCommand, rethrow
Cleanup(w) ==
  /\ pc[w] = "cleanup"
  /\ s3' = [s3 EXCEPT ![cur[w]] = "absent"]
  /\ Goto(w, "handleFailure")
  /\ UNCHANGED <<rows, transcripts, envVars, now, runVars, itemVars, holds>>

(***************************************************************************)
(* services/ingestService.ts: uploadStep, continued                        *)
(***************************************************************************)
\* lines 213-230: finalize to downloaded
FinalizeDownloaded(w) ==
  /\ pc[w] = "finalizeDownloaded"
  /\ IF FinalizeCondition(rows[cur[w]], uploadFinalizeStatuses)
     THEN /\ WriteRow(w, updateStatus(rows[cur[w]], DOWNLOADED,
                                      Options(s3Url[w], NULL, FALSE), now))
          /\ holds' = Released(w, cur[w])
          /\ Goto(w, "claimTranscribing")
          /\ UNCHANGED <<s3Url, err>>
     ELSE /\ ItemReturned(w, "incrementProcessed")
          /\ holds' = [holds EXCEPT ![w] = FALSE]
          /\ UNCHANGED <<rows, path>>
  /\ UNCHANGED <<transcripts, s3, envVars, now, runVars, cur>>

\* lines 378-415: handleFailure, called from the catch of either step
HandleFailure(w) ==
  /\ pc[w] = "handleFailure"
  /\ LET shouldRetry == isRetryable(err[w])
         newStatus == IF shouldRetry THEN FAILED ELSE PERMANENT_FAILURE
     IN IF FinalizeCondition(rows[cur[w]], failureStatuses)
        THEN /\ WriteRow(w, updateStatus(rows[cur[w]], newStatus,
                                         Options(NULL, "error", shouldRetry),
                                         now))
             /\ holds' = Released(w, cur[w])
        ELSE /\ holds' = [holds EXCEPT ![w] = FALSE]
             /\ UNCHANGED <<rows, path>>
  /\ ItemReturned(w, "incrementFailed")
  /\ UNCHANGED <<transcripts, s3, envVars, now, runVars, cur>>

(***************************************************************************)
(* services/ingestService.ts: transcribeStep                               *)
(***************************************************************************)
\* lines 248-284: the claim into transcribing; s3Url is never empty here
ClaimTranscribing(w) ==
  /\ pc[w] = "claimTranscribing"
  /\ IF ClaimCondition(rows[cur[w]], transcribeClaimStatuses, maxRetries)
     THEN /\ WriteRow(w, updateStatus(rows[cur[w]], TRANSCRIBING,
                                      Options(NULL, NULL, FALSE), now))
          /\ holds' = [holds EXCEPT ![w] = TRUE]
          /\ Goto(w, "getTranscript")
          /\ UNCHANGED <<s3Url, err>>
     ELSE /\ ItemReturned(w, "incrementProcessed")
          /\ UNCHANGED <<rows, path, holds>>
  /\ UNCHANGED <<transcripts, s3, envVars, now, runVars, cur>>

\* a variant that returns at once when the transcript exists, without the
\* update to completed
GetTranscriptReturningEarly(w) ==
  /\ pc[w] = "getTranscript"
  /\ IF transcripts[cur[w]] = "text"
     THEN ItemReturned(w, "incrementProcessed")
     ELSE Goto(w, "transcribe") /\ UNCHANGED <<s3Url, err>>
  /\ UNCHANGED <<storeVars, now, runVars, cur, path, holds>>

\* lines 286-289: is there a transcript with text already
GetTranscript(w) ==
  /\ pc[w] = "getTranscript"
  /\ Goto(w, IF transcripts[cur[w]] = "text" THEN "fastTrack"
             ELSE "transcribe")
  /\ UNCHANGED <<storeVars, now, runVars, itemVars, holds>>

\* lines 290-306: the transcript exists: straight to completed
FastTrack(w) ==
  /\ pc[w] = "fastTrack"
  /\ IF FinalizeCondition(rows[cur[w]], fastTrackStatuses)
     THEN /\ WriteRow(w, updateStatus(rows[cur[w]], COMPLETED,
                                      Options(NULL, NULL, FALSE), now))
          /\ holds' = Released(w, cur[w])
     ELSE /\ holds' = [holds EXCEPT ![w] = FALSE]
          /\ UNCHANGED <<rows, path>>
  /\ ItemReturned(w, "incrementProcessed")
  /\ UNCHANGED <<transcripts, s3, envVars, now, runVars, cur>>

\* lines 313-323: the provider answers and createTranscript upserts the row
Transcribe(w) ==
  /\ pc[w] = "transcribe"
  /\ \E text \in TranscriptTexts :
       transcripts' = [transcripts EXCEPT ![cur[w]] = text]
  /\ Goto(w, "finalizeCompleted")
  /\ UNCHANGED <<rows, s3, envVars, now, runVars, itemVars, holds>>

\* lines 313-314, 344-346: the provider call throws
TranscribeFails(w) ==
  /\ pc[w] = "transcribe"
  /\ \E e \in TranscribeErrors : err' = [err EXCEPT ![w] = e]
  /\ Goto(w, "handleFailure")
  /\ UNCHANGED <<storeVars, now, runVars, cur, s3Url, path, holds>>

\* lines 326-343: finalize to completed
FinalizeCompleted(w) ==
  /\ pc[w] = "finalizeCompleted"
  /\ IF FinalizeCondition(rows[cur[w]], transcribeFinalizeStatuses)
     THEN /\ WriteRow(w, updateStatus(rows[cur[w]], COMPLETED,
                                      Options(NULL, NULL, FALSE), now))
          /\ holds' = Released(w, cur[w])
     ELSE /\ holds' = [holds EXCEPT ![w] = FALSE]
          /\ UNCHANGED <<rows, path>>
  /\ ItemReturned(w, "incrementProcessed")
  /\ UNCHANGED <<transcripts, s3, envVars, now, runVars, cur>>

(***************************************************************************)
(* Environment: time, process death, manual intervention                   *)
(***************************************************************************)
Tick ==
  /\ now + TickHours <= MaxClock
  /\ now' = now + TickHours
  /\ UNCHANGED <<storeVars, pc, runVars, itemVars, holds>>

\* the job process dies wherever it stands; its locals are gone
Crash(w) ==
  /\ pc[w] # "idle"
  /\ Goto(w, "idle")
  /\ recoveredCount' = [recoveredCount EXCEPT ![w] = 0]
  /\ disc' = [disc EXCEPT ![w] = <<>>]
  /\ queue' = [queue EXCEPT ![w] = <<>>]
  /\ cur' = [cur EXCEPT ![w] = NoVideo]
  /\ s3Url' = [s3Url EXCEPT ![w] = NULL]
  /\ err' = [err EXCEPT ![w] = NoError]
  /\ holds' = [holds EXCEPT ![w] = FALSE]
  /\ path' = [path EXCEPT ![w] = <<>>]
  /\ UNCHANGED <<storeVars, now, src, jobRun>>

\* an operator calls videoRepo.resetRetryCount(v)
ResetRetryCount(v) ==
  /\ rows[v].present
  /\ rows' = [rows EXCEPT ![v] = resetRetryCount(rows[v], now)]
  /\ UNCHANGED <<transcripts, s3, envVars, now, pc, runVars, itemVars, holds>>

\* processFullPipeline(v) is called on its own, outside a scheduled job
ProcessDirect(w, v) ==
  /\ pc[w] = "idle"
  /\ rows[v].present
  /\ CallPipeline(w, v)
  /\ jobRun' = [jobRun EXCEPT ![w] = NoRun]
  /\ UNCHANGED <<storeVars, now, src, recoveredCount, disc, queue, holds>>

\* one step of a scheduled job
JobStep(w) ==
  \/ StartRun(w)
  \/ RecoverStuck(w)
  \/ Discover(w)
  \/ Upsert(w)
  \/ GetQueue(w)
  \/ NextItem(w)
  \/ IncrementProcessed(w)
  \/ IncrementFailed(w)
  \/ FinishRun(w)

\* one step of processFullPipeline
PipelineStep(w) ==
  \/ ClaimDownloading(w)
  \/ FindById(w)
  \/ PreflightOk(w)
  \/ PreflightFails(w)
  \/ ObjectExists(w)
  \/ ObjectExistsFails(w)
  \/ GateFails(w)
  \/ StreamOk(w)
  \/ StreamFails(w)
  \/ Cleanup(w)
  \/ FinalizeDownloaded(w)
  \/ HandleFailure(w)
  \/ ClaimTranscribing(w)
  \/ GetTranscript(w)
  \/ FastTrack(w)
  \/ Transcribe(w)
  \/ TranscribeFails(w)
  \/ FinalizeCompleted(w)

\* a process that stops taking steps stands for one that died, so Next
\* needs no Crash
Next ==
  \/ \E w \in Procs : JobStep(w)
  \/ \E w \in Procs : PipelineStep(w)
  \/ Tick
  \/ \E v \in Videos : ResetRetryCount(v)

\* concurrent scheduled jobs against one store
Spec == Init /\ [][Next]_vars

(***************************************************************************)
(* One job process at a time, over all recordings and titles: a process    *)
(* may die and be followed by the next scheduled job, and the pipeline may *)
(* be called directly on a video.                                          *)
(***************************************************************************)
InitSolo ==
  /\ rows = [v \in Videos |-> AbsentRow]
  /\ transcripts = [v \in Videos |-> "none"]
  /\ s3 = [v \in Videos |-> "absent"]
  /\ now = 0
  /\ site = {[id |-> 1, title |-> t] : t \in Titles}
              \cup {[id |-> v, title |-> "title-a"] : v \in {1, NumVideos}}
  /\ pc = [w \in {1} |-> "idle"]
  /\ src = [w \in {1} |-> "house"]
  /\ recoveredCount = [w \in {1} |-> 0]
  /\ disc = [w \in {1} |-> <<>>]
  /\ queue = [w \in {1} |-> <<>>]
  /\ cur = [w \in {1} |-> NoVideo]
  /\ s3Url = [w \in {1} |-> NULL]
  /\ err = [w \in {1} |-> NoError]
  /\ holds = [w \in {1} |-> FALSE]
  /\ path = [w \in {1} |-> <<>>]
  /\ cls = IdleCls
  /\ rt = IdleRt
  /\ xf = IdleXf
  /\ sentinel = AllReachable
  /\ jobRun = [w \in {1} |-> NoRun]

NextSolo ==
  \/ \E w \in Procs : JobStep(w)
  \/ \E w \in Procs : PipelineStep(w)
  \/ \E w \in Procs : Crash(w)
  \/ \E w \in Procs : \E v \in Videos : ProcessDirect(w, v)
  \/ now < TickHours /\ Tick

SpecSolo == InitSolo /\ [][NextSolo]_vars

\* one process, nothing started, empty tables
OneProcessIdle ==
  /\ rows = [v \in Videos |-> AbsentRow]
  /\ transcripts = [v \in Videos |-> "none"]
  /\ s3 = [v \in Videos |-> "absent"]
  /\ now = 0
  /\ pc = [w \in {1} |-> "idle"]
  /\ src = [w \in {1} |-> "house"]
  /\ recoveredCount = [w \in {1} |-> 0]
  /\ disc = [w \in {1} |-> <<>>]
  /\ queue = [w \in {1} |-> <<>>]
  /\ cur = [w \in {1} |-> NoVideo]
  /\ s3Url = [w \in {1} |-> NULL]
  /\ err = [w \in {1} |-> NoError]
  /\ holds = [w \in {1} |-> FALSE]
  /\ path = [w \in {1} |-> <<>>]
  /\ jobRun = [w \in {1} |-> NoRun]

(***************************************************************************)
(* One job process over the recordings of one source, with the store of    *)
(* the job telemetry failing at any of the reporter's calls and the stages *)
(* before the loop failing.                                                *)
(***************************************************************************)
\* what is local to runScheduledJob is gone when it has thrown
Thrown(w) ==
  /\ Goto(w, "idle")
  /\ recoveredCount' = [recoveredCount EXCEPT ![w] = 0]
  /\ disc' = [disc EXCEPT ![w] = <<>>]
  /\ queue' = [queue EXCEPT ![w] = <<>>]
  /\ cur' = [cur EXCEPT ![w] = NoVideo]
  /\ s3Url' = [s3Url EXCEPT ![w] = NULL]
  /\ err' = [err EXCEPT ![w] = NoError]
  /\ holds' = [holds EXCEPT ![w] = FALSE]
  /\ path' = [path EXCEPT ![w] = <<>>]

\* line 50: createJobRun throws, the reporter has no runId; in the outer
\* catch log and finishRun return at once and the error is rethrown
StartRunFails(w) ==
  /\ pc[w] = "idle"
  /\ sentinelOutcome(sentinel.up) \in SentinelReturns
  /\ jobRun' = [jobRun EXCEPT ![w] = [NoRun EXCEPT !.escaped = TRUE,
                                                  !.caught = "createJobRun",
                                                  !.rethrown = "createJobRun"]]
  /\ UNCHANGED <<storeVars, now, pc, src, recoveredCount, disc, queue,
                 itemVars, holds>>

\* lines 53-86: recovery, discovery, an upsert, the queue read or a
\* reporter call between them throws
StageFails(w) ==
  /\ pc[w] \in {"recover", "discover", "upsert", "getQueue"}
  /\ Goto(w, "critical")
  /\ Report(w, [jobRun[w] EXCEPT !.escaped = TRUE, !.caught = pc[w]])
  /\ UNCHANGED <<storeVars, now, src, recoveredCount, disc, queue, itemVars,
                 holds>>

\* line 92: the pipeline returned and reporter.incrementProcessed throws
\* after counting; the catch block of the item runs, and its own reporter
\* calls succeed or throw
IncrementProcessedFails(w) ==
  /\ pc[w] = "incrementProcessed"
  /\ \E caught \in BOOLEAN :
       /\ Goto(w, IF caught THEN afterItemCatch ELSE "critical")
       /\ Report(w, [jobRun[w] EXCEPT
                       !.processed = @ + 1, !.failed = @ + 1,
                       !.escaped = ~caught,
                       !.caught = IF caught THEN @ ELSE "telemetry"])
       /\ cur' = [cur EXCEPT ![w] = IF caught THEN NoVideo ELSE @]
       /\ path' = [path EXCEPT ![w] = IF caught THEN <<>> ELSE @]
  /\ UNCHANGED <<storeVars, now, src, recoveredCount, disc, queue, s3Url, err,
                 holds>>

\* lines 96-100: the pipeline threw and reporter.incrementFailed or
\* reporter.log throws
IncrementFailedFails(w) ==
  /\ pc[w] = "incrementFailed"
  /\ Goto(w, "critical")
  /\ Report(w, [jobRun[w] EXCEPT !.failed = @ + 1, !.threw = TRUE,
                                 !.escaped = TRUE, !.caught = "telemetry"])
  /\ UNCHANGED <<storeVars, now, src, recoveredCount, disc, queue, itemVars,
                 holds>>

\* line 105: finalizeJobRun throws
FinishRunFails(w) ==
  /\ pc[w] = "loop"
  /\ queue[w] = <<>>
  /\ Goto(w, "critical")
  /\ Report(w, [jobRun[w] EXCEPT !.escaped = TRUE, !.caught = "telemetry"])
  /\ UNCHANGED <<storeVars, now, src, recoveredCount, disc, queue, itemVars,
                 holds>>

\* line 105: finalizeJobRun has updated the JobRun, then printFinalSummary
\* throws (getJobRunSummary, jobReporter.ts line 136)
FinishRunSummaryFails(w) ==
  /\ pc[w] = "loop"
  /\ queue[w] = <<>>
  /\ Goto(w, "critical")
  /\ Report(w, [finalizeJobRun(jobRun[w], NULL) EXCEPT
                  !.escaped = TRUE, !.caught = "telemetry"])
  /\ UNCHANGED <<storeVars, now, src, recoveredCount, disc, queue, itemVars,
                 holds>>

\* lines 106-121: reporter.log, reporter.finishRun(error), rethrow
CriticalCatch(w) ==
  /\ pc[w] = "critical"
  /\ Thrown(w)
  /\ Report(w, [finalizeJobRun(jobRun[w], jobRun[w].caught) EXCEPT
                  !.rethrown = jobRun[w].caught])
  /\ UNCHANGED <<storeVars, now, src>>

\* lines 112-120: reporter.log or finalizeJobRun throws in the outer catch,
\* and that error leaves runScheduledJob
CriticalCatchFails(w) ==
  /\ pc[w] = "critical"
  /\ Thrown(w)
  /\ Report(w, [jobRun[w] EXCEPT !.rethrown = "telemetry in catch"])
  /\ UNCHANGED <<storeVars, now, src>>

\* lines 116-120: finalizeJobRun has updated the JobRun, then
\* printFinalSummary throws, and that error leaves runScheduledJob
CriticalCatchSummaryFails(w) ==
  /\ pc[w] = "critical"
  /\ Thrown(w)
  /\ Report(w, [finalizeJobRun(jobRun[w], jobRun[w].caught) EXCEPT
                  !.rethrown = "telemetry in catch"])
  /\ UNCHANGED <<storeVars, now, src>>

InitRun ==
  /\ OneProcessIdle
  /\ site = {[id |-> v, title |-> "title-a"] : v \in 1..(NumVideos - 1)}
  /\ cls = IdleCls
  /\ rt = IdleRt
  /\ xf = IdleXf
  /\ sentinel = AllReachable

NextRun ==
  \/ \E w \in Procs : JobStep(w)
  \/ \E w \in Procs : PipelineStep(w)
  \/ \E w \in Procs : StartRunFails(w)
  \/ \E w \in Procs : StageFails(w)
  \/ \E w \in Procs : IncrementProcessedFails(w)
  \/ \E w \in Procs : IncrementFailedFails(w)
  \/ \E w \in Procs : FinishRunFails(w)
  \/ \E w \in Procs : FinishRunSummaryFails(w)
  \/ \E w \in Procs : CriticalCatch(w)
  \/ \E w \in Procs : CriticalCatchFails(w)
  \/ \E w \in Procs : CriticalCatchSummaryFails(w)

SpecRun == InitRun /\ [][NextRun]_vars

(***************************************************************************)
(* The same process with the infrastructure coming and going between its   *)
(* runs: runScheduledJob calls runSentinelCheck before it creates its      *)
(* reporter.                                                               *)
(***************************************************************************)
\* runScheduledJob: runSentinelCheck throws, outside the try, before the
\* JobReporter exists; the error reaches the caller
SentinelAborts(w) ==
  /\ pc[w] = "idle"
  /\ sentinelOutcome(sentinel.up) \notin SentinelReturns
  /\ sentinel' = [sentinel EXCEPT !.outcome = sentinelOutcome(sentinel.up)]
  /\ jobRun' = [jobRun EXCEPT ![w] = [NoRun EXCEPT !.escaped = TRUE]]
  /\ UNCHANGED <<rows, transcripts, s3, site, cls, rt, xf, now, pc, src,
                 recoveredCount, disc, queue, itemVars, holds>>

\* between two runs the database, its schema, the object storage, yt-dlp
\* and the transcription provider become reachable or unreachable
ProbesChange ==
  /\ \A w \in Procs : pc[w] = "idle"
  /\ \E up \in Reachability : sentinel' = [sentinel EXCEPT !.up = up]
  /\ UNCHANGED <<rows, transcripts, s3, site, cls, rt, xf, now, pc, src,
                 recoveredCount, disc, queue, itemVars, holds, jobRun>>

InitSentinel ==
  /\ OneProcessIdle
  /\ site = {[id |-> 1, title |-> "title-a"]}
  /\ cls = IdleCls
  /\ rt = IdleRt
  /\ xf = IdleXf
  /\ sentinel \in [up : Reachability, outcome : {"OK"}]

NextSentinel ==
  \/ NextRun
  \/ \E w \in Procs : SentinelAborts(w)
  \/ ProbesChange

SpecSentinel == InitSentinel /\ [][NextSentinel]_vars

(***************************************************************************)
(* The queue read on its own, over every table of videos the pipeline can  *)
(* leave behind.                                                           *)
(***************************************************************************)
\* a row as discovery inserted it and the pipeline has since written it
StoredRows ==
  {[upsertDiscoveredVideo(AbsentRow, "title-a", 0)
      EXCEPT !.status = st, !.retry_count = n] :
     st \in VideoStatus \ {"queued"}, n \in 0..maxRetries}

InitQueue ==
  /\ rows \in [Videos -> StoredRows \cup {AbsentRow}]
  /\ transcripts = [v \in Videos |-> "none"]
  /\ s3 = [v \in Videos |-> "absent"]
  /\ now = 0
  /\ site = {}
  /\ pc = [w \in {1} |-> "getQueue"]
  /\ src \in [{1} -> {"house", "senate"}]
  /\ recoveredCount = [w \in {1} |-> 0]
  /\ disc = [w \in {1} |-> <<>>]
  /\ queue = [w \in {1} |-> <<>>]
  /\ cur = [w \in {1} |-> NoVideo]
  /\ s3Url = [w \in {1} |-> NULL]
  /\ err = [w \in {1} |-> NoError]
  /\ holds = [w \in {1} |-> FALSE]
  /\ path = [w \in {1} |-> <<>>]
  /\ cls = IdleCls
  /\ rt = IdleRt
  /\ xf = IdleXf
  /\ sentinel = AllReachable
  /\ jobRun = [w \in {1} |-> [NoRun EXCEPT !.status = "running"]]

NextQueue == \E w \in Procs : GetQueue(w)

SpecQueue == InitQueue /\ [][NextQueue]_vars

(***************************************************************************)
(* The recovery step on its own, over tables of videos of every status and *)
(* age, for a run started with the option stuckThresholdHours.             *)
(***************************************************************************)
\* the values of the option stuckThresholdHours
ThresholdOptions == {6, defaultStuckThresholdHours, 20}

\* rows written at hour 0 or at the first tick of the clock
AgedRows ==
  {[r EXCEPT !.updated_at = t] :
     r \in {x \in StoredRows : x.retry_count = 0}, t \in {0, TickHours}}

InitRecover ==
  /\ rows \in [Videos -> AgedRows \cup {AbsentRow}]
  /\ transcripts = [v \in Videos |-> "none"]
  /\ s3 = [v \in Videos |-> "absent"]
  /\ now \in {TickHours, 2 * TickHours}
  /\ site = {}
  /\ pc = [w \in {1} |-> "recover"]
  /\ src \in [{1} -> {"house", "senate"}]
  /\ recoveredCount = [w \in {1} |-> 0]
  /\ disc = [w \in {1} |-> <<>>]
  /\ queue = [w \in {1} |-> <<>>]
  /\ cur = [w \in {1} |-> NoVideo]
  /\ s3Url = [w \in {1} |-> NULL]
  /\ err = [w \in {1} |-> NoError]
  /\ holds = [w \in {1} |-> FALSE]
  /\ path = [w \in {1} |-> <<>>]
  /\ cls = IdleCls
  /\ rt = IdleRt
  /\ xf = IdleXf
  /\ sentinel = AllReachable
  /\ jobRun \in [{1} -> {[NoRun EXCEPT !.status = "running",
                                        !.stuckThresholdHours = h] :
                           h \in ThresholdOptions}]

NextRecover == \E w \in Procs : RecoverStuck(w)

SpecRecover == InitRecover /\ [][NextRecover]_vars

(***************************************************************************)
(* One call of processFullPipeline on its own, for a video in any state    *)
(* the store can hold, or for an id the store does not hold.               *)
(***************************************************************************)
\* rows with and without an s3_key: a pending row has none, and a row that
\* is downloaded, transcribing or completed has one
KeyedRows ==
  {x \in {[r EXCEPT !.s3_key = k] : r \in StoredRows, k \in {NULL, S3UrlOf(1)}} :
     /\ x.status = PENDING => x.s3_key = NULL
     /\ x.status \in {DOWNLOADED, TRANSCRIBING, COMPLETED} => x.s3_key # NULL}

InitPipeline ==
  /\ \E r \in KeyedRows \cup {AbsentRow} :
       /\ rows = [v \in Videos |-> IF v = 1 THEN r ELSE AbsentRow]
       /\ path = [w \in {1} |-> <<r.status>>]
  /\ transcripts \in {[v \in Videos |-> IF v = 1 THEN t ELSE "none"] :
                        t \in {"none"} \cup TranscriptTexts}
  /\ s3 \in {[v \in Videos |-> IF v = 1 THEN o ELSE "absent"] :
               o \in {"absent", "partial", "complete"}}
  /\ now = 0
  /\ site = {}
  /\ pc = [w \in {1} |-> "claimDownloading"]
  /\ src = [w \in {1} |-> "house"]
  /\ recoveredCount = [w \in {1} |-> 0]
  /\ disc = [w \in {1} |-> <<>>]
  /\ queue = [w \in {1} |-> <<>>]
  /\ cur = [w \in {1} |-> 1]
  /\ s3Url = [w \in {1} |-> NULL]
  /\ err = [w \in {1} |-> NoError]
  /\ holds = [w \in {1} |-> FALSE]
  /\ cls = IdleCls
  /\ rt = IdleRt
  /\ xf = IdleXf
  /\ sentinel = AllReachable
  /\ jobRun = [w \in {1} |-> NoRun]

NextPipeline == \E w \in Procs : PipelineStep(w)

SpecPipeline == InitPipeline /\ [][NextPipeline]_vars

(***************************************************************************)
(* Runs that are no longer interrupted: one process runs the job again and *)
(* again on a store in any state earlier runs, interrupted or not, can     *)
(* have left, while time passes without end.                               *)
(***************************************************************************)
\* NOW() moves on by TickHours. Once the clock of the model is at MaxClock
\* the timestamps of the rows move back instead, which leaves every age
\* below MaxClock as it would be and keeps older rows at that age
Elapse ==
  IF now + TickHours <= MaxClock
  THEN /\ now' = now + TickHours
       /\ UNCHANGED <<storeVars, pc, runVars, itemVars, holds>>
  ELSE /\ rows' = [v \in Videos |->
                     [rows[v] EXCEPT
                        !.updated_at = IF @ >= TickHours THEN @ - TickHours
                                       ELSE 0]]
       /\ UNCHANGED <<transcripts, s3, envVars, now, pc, runVars, itemVars,
                      holds>>

InitProgress ==
  /\ \E r \in KeyedRows \cup {AbsentRow} :
       rows = [v \in Videos |-> IF v = 1 THEN r ELSE AbsentRow]
  /\ transcripts \in {[v \in Videos |-> IF v = 1 THEN t ELSE "none"] :
                        t \in {"none"} \cup TranscriptTexts}
  /\ s3 \in {[v \in Videos |-> IF v = 1 THEN o ELSE "absent"] :
               o \in {"absent", "partial", "complete"}}
  /\ now = 0
  /\ site = {[id |-> 1, title |-> "title-a"]}
  /\ pc = [w \in {1} |-> "idle"]
  /\ src = [w \in {1} |-> "house"]
  /\ recoveredCount = [w \in {1} |-> 0]
  /\ disc = [w \in {1} |-> <<>>]
  /\ queue = [w \in {1} |-> <<>>]
  /\ cur = [w \in {1} |-> NoVideo]
  /\ s3Url = [w \in {1} |-> NULL]
  /\ err = [w \in {1} |-> NoError]
  /\ holds = [w \in {1} |-> FALSE]
  /\ path = [w \in {1} |-> <<>>]
  /\ cls = IdleCls
  /\ rt = IdleRt
  /\ xf = IdleXf
  /\ sentinel = AllReachable
  /\ jobRun = [w \in {1} |-> NoRun]

RunStep == \E w \in Procs : JobStep(w) \/ PipelineStep(w)

NextProgress == RunStep \/ Elapse

\* the job is started again whenever it is idle and every step of a run is
\* eventually taken; time passes
SpecProgress ==
  InitProgress /\ [][NextProgress]_vars /\ WF_vars(RunStep) /\ WF_vars(Elapse)

(***************************************************************************)
(* The utilities on their own: no job runs and the store stays empty.      *)
(***************************************************************************)
NoJob == OneProcessIdle /\ site = {}

jobVars ==
  <<rows, transcripts, s3, now, site, pc, src, recoveredCount, disc, queue,
    cur, s3Url, err, holds, path, jobRun, sentinel>>

(***************************************************************************)
(* utils/http.ts: isRetryable applied to an error                          *)
(***************************************************************************)
\* the structured status codes an error may carry, 0 for none
ClassifyCodes ==
  {0, 200, 302, 399, 400, 401, 403, 404, 408, 410, 425, 429, 451, 499, 500,
   502, 503, 599, 600}

\* the status codes a message may name
TextCodes == {302, 404, 429, 503}

\* the status codes yt-dlp may report as "HTTP Error <code>"
MarkerCodes == {400, 401, 403, 404, 410}

\* the messages an error may have
ClassifyTexts ==
  {<<>>, <<Word("boom")>>, <<Word("ECONNRESET")>>,
   <<Word("socket"), Word("hang"), Word("up")>>,
   <<Word("HTTP"), Word("Error"), Num(404)>>,
   <<Word("HTTP"), Word("Error"), Num(404), Word("ETIMEDOUT")>>,
   <<Word("status"), Word("unknown"), Word("Status"), Num(503)>>}
    \cup {<<Word("Request"), Word("failed"), Word("with"), Word("status"),
            Num(c)>> : c \in TextCodes}
    \cup {<<Word("HTTP"), Word("Error"), Num(404), Word("status"), Num(c),
            Word("ECONNRESET")>> : c \in TextCodes}
    \cup {<<Word("status"), Num(c), Word("then"), Word("status"), Num(503)>> :
            c \in TextCodes}
    \cup {<<Word("HTTP"), Word("Error"), Num(c)>> : c \in MarkerCodes}
    \cup {<<Word("HTTP"), Word("Error"), Num(c), Word("ECONNRESET")>> :
            c \in MarkerCodes}

InitClassify ==
  /\ NoJob
  /\ rt = IdleRt
  /\ xf = IdleXf
  /\ sentinel = AllReachable
  /\ cls \in {[error |-> MkError(c, m), result |-> "none"] :
                c \in ClassifyCodes, m \in ClassifyTexts}

\* isRetryable(error)
Classify ==
  /\ cls.result = "none"
  /\ cls' = [cls EXCEPT !.result = IF isRetryable(cls.error) THEN "retryable"
                                   ELSE "fatal"]
  /\ UNCHANGED <<jobVars, rt, xf>>

NextClassify == Classify

SpecClassify == InitClassify /\ [][NextClassify]_vars

(***************************************************************************)
(* utils/retry.ts, utils/http.ts: fetchWithRetry, which runs fetch under   *)
(* retryWithBackoff                                                        *)
(***************************************************************************)
MaxAttemptsBound == 5

\* what one fetch ends with: the status of the response, 0 when fetch throws
\* instead of answering
FetchOutcomes == {0, 200, 404, 503}

\* res.ok
Ok(status) == status >= 200 /\ status <= 299

\* the error the function given to retryWithBackoff throws for an outcome
\* that is not an ok response
FetchError(outcome) ==
  IF outcome = 0 THEN FetchFailed ELSE HttpError(outcome)

Min(a, b) == IF a <= b THEN a ELSE b

\* the delay before the random jitter is added
backoffDelayUncapped(baseDelayMs, maxDelayMs, attempt) ==
  baseDelayMs * 2 ^ (attempt - 1)

backoffDelay(baseDelayMs, maxDelayMs, attempt) ==
  Min(baseDelayMs * 2 ^ (attempt - 1), maxDelayMs)

\* the test that ends the loop with the error
giveUpAfter(attempt, maxAttempts) == attempt > maxAttempts

giveUp(attempt, maxAttempts) == attempt >= maxAttempts

RetryOptions ==
  {[maxAttempts |-> n, baseDelayMs |-> d[1], maxDelayMs |-> d[2]] :
     n \in 1..MaxAttemptsBound,
     d \in {<<100, 1000>>, <<500, 10000>>, <<100, 250>>}}

InitRetry ==
  /\ NoJob
  /\ cls = IdleCls
  /\ xf = IdleXf
  /\ sentinel = AllReachable
  /\ rt \in {[IdleRt EXCEPT !.maxAttempts = o.maxAttempts,
                            !.baseDelayMs = o.baseDelayMs,
                            !.maxDelayMs = o.maxDelayMs,
                            !.pc = "call", !.attempt = 1] :
               o \in RetryOptions}

\* one pass through the loop up to the sleep: fn() is awaited; its value is
\* returned, or its error is thrown when the attempts are used up, or the
\* delay is computed and the sleep starts
Attempt ==
  /\ rt.pc = "call"
  /\ \E outcome \in FetchOutcomes :
       LET seen == [rt EXCEPT !.responses = Append(@, outcome)]
           failed == [seen EXCEPT !.errors = Append(@, FetchError(outcome))]
       IN rt' = IF Ok(outcome)
                THEN [seen EXCEPT !.pc = "returned", !.result = outcome]
                ELSE IF giveUp(rt.attempt, rt.maxAttempts)
                THEN [failed EXCEPT !.pc = "thrown",
                                    !.thrown = FetchError(outcome)]
                ELSE [failed EXCEPT
                        !.pc = "sleep",
                        !.delays = Append(@, backoffDelay(rt.baseDelayMs,
                                                          rt.maxDelayMs,
                                                          rt.attempt))]
  /\ UNCHANGED <<jobVars, cls, xf>>

\* the timer fires and the next pass begins
Wake ==
  /\ rt.pc = "sleep"
  /\ rt' = [rt EXCEPT !.attempt = @ + 1, !.pc = "call"]
  /\ UNCHANGED <<jobVars, cls, xf>>

NextRetry == Attempt \/ Wake

SpecRetry == InitRetry /\ [][NextRetry]_vars

\* the awaited function settles and the timer fires
SpecRetryLive == SpecRetry /\ WF_vars(Attempt) /\ WF_vars(Wake)

(***************************************************************************)
(* clients/s3Client.ts: uploadVideoFromUrl in detail. Sizes are in MiB.    *)
(***************************************************************************)
MIN_VIDEO_SIZE == 5
ChunkSize == 2
MaxChunks == 4
MaxCalls == 2

\* the validation in the close handler, of the exit code alone
exitVerdictByCodeOnly(code, totalBytes) ==
  IF code # 0 THEN "yt-dlp failed" ELSE "ok"

\* the validation in the close handler
exitVerdict(code, totalBytes) ==
  IF code # 0 THEN "yt-dlp failed"
  ELSE IF totalBytes < MIN_VIDEO_SIZE THEN "file too small"
  ELSE "ok"

InitTransfer ==
  /\ NoJob
  /\ cls = IdleCls
  /\ rt = IdleRt
  /\ xf = [IdleXf EXCEPT !.pc = "start", !.caller = "awaiting", !.calls = 1]
  /\ sentinel = AllReachable

XfStep(next) ==
  /\ xf' = next
  /\ UNCHANGED <<jobVars, cls, rt>>

\* objectExists throws: the HEAD request failed with something but a 404
HeadObjectFails ==
  /\ xf.pc = "start"
  /\ XfStep([xf EXCEPT !.pc = "thrown", !.error = "objectExists failed"])

\* the idempotency check finds an object and the locator is returned
SkipExisting ==
  /\ xf.pc = "start"
  /\ xf.object # NoObject
  /\ XfStep([xf EXCEPT !.pc = "returned"])

\* no object: yt-dlp is spawned, or fails to spawn, the signal listeners are
\* attached, stdout is piped and the readiness gate is entered
SpawnYtDlp ==
  /\ xf.pc = "start"
  /\ xf.object = NoObject
  /\ \E c \in {"running", "spawnFailed"} :
       XfStep([xf EXCEPT !.pc = "gate", !.child = c, !.handlers = TRUE])

\* yt-dlp writes a chunk to stdout
YtDlpWrites ==
  /\ xf.child = "running"
  /\ xf.produced < MaxChunks * ChunkSize
  /\ XfStep([xf EXCEPT !.produced = @ + ChunkSize])

\* yt-dlp exits by itself, which ends stdout
YtDlpExits ==
  /\ xf.child = "running"
  /\ \E c \in {0, 1} : XfStep([xf EXCEPT !.child = "exited", !.code = c])

\* 'readable' on the PassThrough: a chunk is in the buffer, or the stream
\* has ended with nothing in it. The gate resolves; the Upload is created
\* on the stream, the progress and close listeners are attached and
\* upload.done() is awaited together with the exit of the process
GateOnReadable ==
  /\ xf.pc = "gate"
  /\ xf.produced > 0 \/ xf.child = "exited"
  /\ XfStep([xf EXCEPT !.pc = "uploading", !.upload = "running"])

\* the gate fails: the signal listeners are removed and the error is thrown
GateFails2(msg) ==
  XfStep([xf EXCEPT !.pc = "thrown", !.error = msg, !.handlers = FALSE])

\* 'error' on the process: it could not be spawned
GateOnError ==
  /\ xf.pc = "gate"
  /\ xf.child = "spawnFailed"
  /\ GateFails2("spawn error")

\* 'close' on the process before any 'readable': it exited without output
GateOnClose ==
  /\ xf.pc = "gate"
  /\ xf.child = "exited"
  /\ xf.produced = 0
  /\ GateFails2(IF xf.code # 0 THEN "Process exited early"
                ELSE "Process exited without sending data")

\* 30 seconds pass with the process alive and silent
GateOnTimeout ==
  /\ xf.pc = "gate"
  /\ xf.child = "running"
  /\ xf.produced = 0
  /\ GateFails2("Stream timeout")

\* httpUploadProgress: totalBytes = p.loaded
HttpUploadProgress ==
  /\ xf.pc = "uploading"
  /\ xf.upload = "running"
  /\ xf.totalBytes < xf.produced
  /\ XfStep([xf EXCEPT !.totalBytes = @ + ChunkSize])

\* the stream has ended and everything read from it is stored: upload.done()
\* resolves and the object exists at the key
UploadDone ==
  /\ xf.pc = "uploading"
  /\ xf.upload = "running"
  /\ xf.child = "exited"
  /\ xf.totalBytes = xf.produced
  /\ XfStep([xf EXCEPT !.upload = "done",
                       !.object = [bytes |-> xf.produced, code |-> xf.code]])

\* upload.done() rejects
UploadFails ==
  /\ xf.pc = "uploading"
  /\ xf.upload = "running"
  /\ XfStep([xf EXCEPT !.pc = "catch", !.upload = "failed",
                       !.error = "upload error"])

\* 'close' on the process after the gate: the signal listeners are removed
\* and the exit is validated
OnClose ==
  /\ xf.pc = "uploading"
  /\ xf.child = "exited"
  /\ ~xf.closeSeen
  /\ LET verdict == exitVerdict(xf.code, xf.totalBytes)
         seen == [xf EXCEPT !.closeSeen = TRUE, !.handlers = FALSE]
     IN XfStep(IF verdict = "ok" THEN [seen EXCEPT !.exitOk = TRUE]
               ELSE [seen EXCEPT !.pc = "catch", !.error = verdict])

\* both promises resolved: the locator is returned
ReturnLocator ==
  /\ xf.pc = "uploading"
  /\ xf.upload = "done"
  /\ xf.exitOk
  /\ XfStep([xf EXCEPT !.pc = "returned"])

\* both promises resolved, but the locator cannot be signed
PresignFails ==
  /\ xf.pc = "uploading"
  /\ xf.upload = "done"
  /\ xf.exitOk
  /\ XfStep([xf EXCEPT !.pc = "catch", !.error = "presign failed"])

\* the catch block: SIGKILL to the process, upload.abort(), DeleteObject
\* whose failure is ignored, the signal listeners removed, the wrapped
\* error thrown
CatchCleanup ==
  /\ xf.pc = "catch"
  /\ \E deleted \in BOOLEAN :
       XfStep([xf EXCEPT
                 !.pc = "thrown",
                 !.killSent = TRUE,
                 !.child = IF @ = "running" THEN "killed" ELSE @,
                 !.upload = IF @ = "running" THEN "aborted" ELSE @,
                 !.deleteIssued = TRUE,
                 !.object = IF deleted THEN NoObject ELSE @,
                 !.handlers = FALSE])

\* cleanupListener: SIGTERM or SIGINT reaches the host while the listeners
\* are attached and yt-dlp runs: it is sent SIGKILL, its stdout ends and it
\* closes with code null, which like 1 is not 0
HostSignal ==
  /\ xf.handlers
  /\ xf.child = "running"
  /\ ~xf.killSent
  /\ XfStep([xf EXCEPT !.child = "exited", !.code = 1, !.killSent = TRUE])

\* uploadStep: the awaited transfer settles; with a locator the video is
\* finalized to downloaded, with an error handleFailure is called
UploadStepSettles ==
  /\ xf.caller = "awaiting"
  /\ xf.pc \in {"returned", "thrown"}
  /\ XfStep([xf EXCEPT !.caller = IF xf.pc = "returned"
                                  THEN "finalizeDownloaded"
                                  ELSE "handleFailure"])

\* a later run transfers the same recording again; what is at the key stays
CallAgain ==
  /\ xf.caller \in {"finalizeDownloaded", "handleFailure"}
  /\ xf.calls < MaxCalls
  /\ XfStep([IdleXf EXCEPT !.pc = "start", !.caller = "awaiting",
                           !.calls = xf.calls + 1, !.object = xf.object])

NextTransfer ==
  \/ HeadObjectFails
  \/ SkipExisting
  \/ SpawnYtDlp
  \/ YtDlpWrites
  \/ YtDlpExits
  \/ GateOnReadable
  \/ GateOnError
  \/ GateOnClose
  \/ GateOnTimeout
  \/ HttpUploadProgress
  \/ UploadDone
  \/ UploadFails
  \/ OnClose
  \/ ReturnLocator
  \/ PresignFails
  \/ CatchCleanup
  \/ HostSignal
  \/ UploadStepSettles
  \/ CallAgain

SpecTransfer == InitTransfer /\ [][NextTransfer]_vars

TypeOK ==
  /\ \A v \in Videos :
       /\ rows[v].status \in VideoStatus
       /\ rows[v].retry_count \in Nat
       /\ transcripts[v] \in {"none"} \cup TranscriptTexts
       /\ s3[v] \in {"absent", "partial", "complete"}
  /\ \A w \in Procs : cur[w] \in Videos \cup {NoVideo}

(***************************************************************************)
(* Properties                                                              *)
(***************************************************************************)
Last(seq) == seq[Len(seq)]

\* process w is past a successful claim into status claimed and has neither
\* finalized nor recorded a failure of that stage yet
InStage(w, claimed) ==
  /\ pc[w] \in {"preflight", "objectExists", "stream", "cleanup",
                "finalizeDownloaded", "handleFailure", "getTranscript",
                "fastTrack", "transcribe", "finalizeCompleted"}
  /\ Len(path[w]) >= 2
  /\ Last(path[w]) = claimed

C4_TerminalAbsorbing ==
  [][\A v \in Videos :
       rows[v].status \in {COMPLETED, PERMANENT_FAILURE}
         => rows'[v].status = rows[v].status]_vars

\* C5 as stated: s3_key is non-null only while the status is downloaded,
\* transcribing or completed
C5_LocatorOnlyWhenStored ==
  \A v \in Videos :
    rows[v].s3_key # NULL
      => rows[v].status \in {DOWNLOADED, TRANSCRIBING, COMPLETED}

\* C5, amended: s3_key is first set by the finalize from downloading to
\* downloaded and by nothing else, it is kept by every later write, and a
\* pending row never has one
C5_LocatorSetByFinalize ==
  [][\A v \in Videos :
       /\ rows'[v].s3_key # NULL => rows'[v].status # PENDING
       /\ (rows[v].s3_key = NULL /\ rows'[v].s3_key # NULL)
            => (rows[v].status = DOWNLOADING /\ rows'[v].status = DOWNLOADED)
       /\ rows[v].s3_key # NULL => rows'[v].s3_key = rows[v].s3_key]_vars

\* a video that was transferred and then failed keeps its s3_key
C5_Witness ==
  \E v \in Videos :
    /\ rows[v].s3_key # NULL
    /\ rows[v].status \in {FAILED, PERMANENT_FAILURE}

\* C6: the failure handler, run for a video whose status is pending,
\* downloading, downloaded or transcribing, sets failed and adds one to
\* retry_count when the error is retryable, sets permanent_failure and
\* leaves retry_count when it is not, and rethrows in both cases
C6_FailureRouting ==
  [][\A w \in Procs :
       (pc[w] = "handleFailure" /\ pc'[w] # "handleFailure")
         => /\ pc'[w] = "incrementFailed"
            /\ rows[cur[w]].status
                  \in {PENDING, DOWNLOADING, DOWNLOADED, TRANSCRIBING}
                 => LET old == rows[cur[w]]
                        new == rows'[cur[w]]
                    IN IF isRetryable(err[w])
                       THEN /\ new.status = FAILED
                            /\ new.retry_count = old.retry_count + 1
                       ELSE /\ new.status = PERMANENT_FAILURE
                            /\ new.retry_count = old.retry_count]_vars

\* the failure handler has recorded a retryable failure of the transfer
C6_Witness ==
  \E w \in Procs :
    /\ pc[w] = "incrementFailed"
    /\ Len(path[w]) >= 3
    /\ path[w][Len(path[w]) - 1] = DOWNLOADING
    /\ Last(path[w]) = FAILED
    /\ rows[cur[w]].status = FAILED
    /\ rows[cur[w]].retry_count >= 1

\* C7 as stated: a pre-flight that ends with a 5xx or 429 response leaves the
\* video failed with retry_count incremented
C7_TransientPreflightRetried ==
  [][\A w \in Procs :
       (/\ pc[w] = "handleFailure" /\ pc'[w] # "handleFailure"
        /\ err[w] \in {PreflightError(HttpError(st)) : st \in {429, 503}}
        /\ rows[cur[w]].status = DOWNLOADING)
         => /\ rows'[cur[w]].status = FAILED
            /\ rows'[cur[w]].retry_count = rows[cur[w]].retry_count + 1]_vars

\* C8 as stated: upsertDiscoveredVideo on a video that exists leaves status,
\* retry_count, s3_key and last_error, sets the title to the listed one, adds
\* no row and touches no other row; with the input the row already carries
\* it changes nothing at all
C8_IdempotentDiscovery ==
  [][\A w \in Procs :
       (pc[w] = "upsert" /\ pc'[w] \in {"upsert", "getQueue"})
         => LET l == Head(disc[w])
                old == rows[l.id]
                new == rows'[l.id]
            IN /\ \A u \in Videos \ {l.id} : rows'[u] = rows[u]
               /\ old.present
                    => /\ new.present
                       /\ new.title = l.title
                       /\ new.status = old.status
                       /\ new.retry_count = old.retry_count
                       /\ new.s3_key = old.s3_key
                       /\ new.last_error = old.last_error
               /\ (old.present /\ old.title = l.title) => new = old]_vars

\* C9: recoverStuckJobs sets every video of the source that is downloading
\* or transcribing and was last updated more than the threshold ago to failed
\* with a last_error, returns their number, leaves every other row as it is,
\* would reset nothing when repeated at once, and leaves the reset video
\* claimable into downloading while its retry_count is below maxRetries
C9_StuckRecovery ==
  [][\A w \in Procs :
       (pc[w] = "recover" /\ pc'[w] = "discover")
         => LET stale == {v \in Videos :
                            /\ rows[v].present
                            /\ SourceOf(v) = src[w]
                            /\ rows[v].status \in {DOWNLOADING, TRANSCRIBING}
                            /\ now - rows[v].updated_at
                                 > recoverThresholdHours}
            IN /\ \A v \in stale :
                    /\ rows'[v].status = FAILED
                    /\ rows'[v].last_error \notin {NULL, rows[v].last_error}
                    /\ rows'[v].retry_count = rows[v].retry_count
                    /\ rows'[v].s3_key = rows[v].s3_key
                    /\ rows[v].retry_count < maxRetries
                         => ClaimCondition(rows'[v], uploadClaimStatuses,
                                           maxRetries)
               /\ \A v \in Videos \ stale : rows'[v] = rows[v]
               /\ recoveredCount'[w] = Cardinality(stale)
               /\ resetStuckVideos(rows', src[w], recoverThresholdHours, now')
                    = rows']_vars

\* a job has just reset a stale video of its source
C9_Witness ==
  \E w \in Procs : \E v \in Videos :
    /\ pc[w] = "discover"
    /\ recoveredCount[w] >= 1
    /\ SourceOf(v) = src[w]
    /\ rows[v].status = FAILED
    /\ rows[v].last_error = "Auto-Reset"
    /\ rows[v].updated_at = now

\* C10: a call of processFullPipeline that starts on a pending video and
\* returns has taken it through downloading, downloaded and transcribing to
\* completed, with an s3_key, retry_count 0 and a transcript; a call that
\* starts on a completed video changes no row, no transcript and no object,
\* and reaches neither the transfer nor the transcription
C10_HappyPath ==
  [][\A w \in Procs :
       /\ (pc'[w] = "incrementProcessed" /\ path'[w][1] = PENDING)
            => /\ path'[w] = <<PENDING, DOWNLOADING, DOWNLOADED, TRANSCRIBING,
                                COMPLETED>>
               /\ rows'[cur'[w]].status = COMPLETED
               /\ rows'[cur'[w]].s3_key # NULL
               /\ rows'[cur'[w]].retry_count = 0
               /\ transcripts'[cur'[w]] # "none"
       /\ (path[w] # <<>> /\ path[w][1] = COMPLETED)
            => /\ rows' = rows
               /\ transcripts' = transcripts
               /\ s3' = s3
               /\ pc'[w] \in {"claimDownloading", "findById",
                               "claimTranscribing", "incrementProcessed",
                               "loop", "idle"}]_vars

\* processFullPipeline has been called on a completed video and has returned
C10_Witness ==
  \E w \in Procs :
    /\ pc[w] = "incrementProcessed"
    /\ path[w] = <<COMPLETED>>
    /\ rows[cur[w]].status = COMPLETED
    /\ rows[cur[w]].s3_key # NULL
    /\ rows[cur[w]].retry_count = 0
    /\ transcripts[cur[w]] # "none"

\* the status code an error carries: the structured one when there is one,
\* otherwise the one its message names
CarriedCode(error) ==
  IF error.status # 0 THEN error.status ELSE StatusInMessage(error.message)

\* C15: an error that carries a status code from 400 to 599, structured or
\* named in its message, is classified retryable exactly when the code is
\* 408, 425, 429 or 499 or lies in 500..599, whatever else the message says;
\* a structured code takes precedence over a code named in the message
C15_StatusClassification ==
  cls.result # "none" =>
    LET c == CarriedCode(cls.error)
    IN (c >= 400 /\ c <= 599) =>
         (cls.result = "retryable" <=> (c \in {408, 425, 429, 499} \/ c >= 500))

\* a structured 404 whose message names status 503 and a network error has
\* been classified
C15_Witness ==
  /\ cls.result = "fatal"
  /\ cls.error.status = 404
  /\ StatusInMessage(cls.error.message) = 503
  /\ ContainsWords(cls.error.message, <<"econnreset">>)

\* C13: fetchWithRetry under retryWithBackoff with maxAttempts = n >= 1 ends,
\* returning or throwing; the function is invoked at least once and at most
\* n times; it returns the value of the first successful invocation, which
\* is the last invocation made; it throws only after n failed invocations,
\* and then the error of the n-th invocation as that invocation threw it
C13_BoundedRetry ==
  /\ [](/\ Len(rt.responses) <= rt.maxAttempts
        /\ rt.pc = "returned" =>
             /\ Len(rt.responses) >= 1
             /\ rt.result = Last(rt.responses)
             /\ Ok(rt.result)
             /\ \A i \in 1..(Len(rt.responses) - 1) : ~Ok(rt.responses[i])
        /\ rt.pc = "thrown" =>
             /\ Len(rt.responses) = rt.maxAttempts
             /\ Len(rt.errors) = rt.maxAttempts
             /\ rt.thrown = FetchError(rt.responses[rt.maxAttempts])
             /\ rt.thrown = rt.errors[rt.maxAttempts])
  /\ <>(rt.pc \in {"returned", "thrown"})
  /\ [][rt.pc \in {"returned", "thrown"} => rt' = rt]_vars

\* three invocations failed differently and the error of the third was thrown
C13_Witness ==
  /\ rt.pc = "thrown"
  /\ rt.maxAttempts = 3
  /\ rt.responses = <<503, 0, 404>>
  /\ rt.thrown = HttpError(404)

\* C14: the delay slept after the k-th failed attempt, before jitter, is
\* min(baseDelayMs * 2^(k-1), maxDelayMs); it is at most maxDelayMs and at
\* least the delay before it; one delay is slept per failed attempt except
\* the attempt whose error is thrown
C14_BackoffSequence ==
  /\ \A k \in 1..Len(rt.delays) :
       /\ rt.delays[k] = Min(rt.baseDelayMs * 2 ^ (k - 1), rt.maxDelayMs)
       /\ rt.delays[k] <= rt.maxDelayMs
       /\ k > 1 => rt.delays[k] >= rt.delays[k - 1]
  /\ Len(rt.delays) = Len(rt.errors) - (IF rt.pc = "thrown" THEN 1 ELSE 0)

\* maxAttempts 3, base 100, max 1000: two failures, then success
C14_Witness ==
  /\ rt.maxAttempts = 3 /\ rt.baseDelayMs = 100 /\ rt.maxDelayMs = 1000
  /\ rt.pc = "returned"
  /\ rt.delays = <<100, 200>>

\* C16: fetchWithRetry neither sleeps nor fetches again after a response
\* whose status isRetryable classifies as fatal: such a response is the only
\* one and the call has thrown
C16_FatalFailsImmediately ==
  \A i \in 1..Len(rt.responses) :
    (rt.responses[i] # 0 /\ ~Ok(rt.responses[i])
       /\ ~isRetryable(MkError(rt.responses[i], <<>>)))
      => (Len(rt.responses) = 1 /\ rt.pc = "thrown")

\* the transfer has settled and its fetch process had exited with code 0
\* after writing less than the size floor
SmallTransferSettled ==
  /\ xf.pc \in {"returned", "thrown"}
  /\ xf.child = "exited"
  /\ xf.code = 0
  /\ xf.produced < MIN_VIDEO_SIZE

\* C17 as stated: a transfer whose fetch process exits with code 0 after
\* producing fewer bytes than the size floor throws, with a delete issued
\* for the destination key, and the item is not finalized to downloaded
C17_SmallFileRejected ==
  SmallTransferSettled =>
    /\ xf.pc = "thrown"
    /\ xf.deleteIssued
    /\ xf.caller # "finalizeDownloaded"

\* C17, amended: such a transfer throws and the item is not finalized to
\* downloaded; the delete for the destination key is issued whenever the
\* upload had been started, and is not when the readiness gate failed
C17_SmallFileRejectedPastGate ==
  SmallTransferSettled =>
    /\ xf.pc = "thrown"
    /\ xf.caller # "finalizeDownloaded"
    /\ xf.upload # "none" => xf.deleteIssued
    /\ xf.upload = "none" => ~xf.deleteIssued

\* the process wrote 2 MiB and exited with code 0, the upload completed,
\* the validation failed, the delete was issued and uploadStep went to
\* handleFailure
C17_Witness ==
  /\ xf.pc = "thrown"
  /\ xf.child = "exited" /\ xf.code = 0 /\ xf.produced = 2
  /\ xf.error = "file too small"
  /\ xf.upload = "done"
  /\ xf.deleteIssued
  /\ xf.object = NoObject
  /\ xf.caller = "handleFailure"

\* C18: when the transfer has thrown, the fetch process is not running: it
\* never started, has exited or has been sent SIGKILL
C18_NoChildLeftRunning ==
  xf.pc = "thrown" => xf.child # "running"

\* C19: the upload is started only after the fetch process has written at
\* least one chunk, and nothing is stored at the destination key by a
\* transfer whose process wrote nothing
C19_UploadOnlyAfterData ==
  /\ xf.upload # "none" => xf.produced > 0
  /\ (xf.calls = 1 /\ xf.produced = 0) => xf.object = NoObject

\* C20: whenever the transfer has returned a locator, the object at the
\* destination key is the output of a fetch process that exited with code 0
\* and holds at least the size floor
C20_LocatorMeansCompleteObject ==
  xf.pc = "returned" =>
    /\ xf.object.code = 0
    /\ xf.object.bytes >= MIN_VIDEO_SIZE

C12_FinalStatus ==
  \A w \in Procs :
    LET r == jobRun[w]
    IN (pc[w] = "idle" /\ r.status # "none") =>
         /\ r.status # "running"
         /\ r.status = "failed" <=> r.escaped
         /\ ~r.escaped => (r.status = "completed_with_errors" <=> r.threw)

\* C21: a process that holds the claim into downloading on a video whose
\* object already exists at the destination key goes on to the idempotency
\* check and the finalize without the source being probed: no step takes it
\* from the claim to handleFailure
C21_ExistingObjectSkipsPreflight ==
  [][\A w \in Procs :
       (pc[w] = "preflight" /\ s3[cur[w]] # "absent"
          /\ pc'[w] \notin {"preflight", "idle"})
         => pc'[w] \in {"objectExists", "finalizeDownloaded"}]_vars


\* a probe on which runSentinelCheck throws finds its target unreachable
CriticalDown == \E p \in Probes \ {"deepgram"} : ~sentinel.up[p]

\* C22: when the database, its schema, the object storage or yt-dlp is
\* unreachable as a process is about to run, no step of that process
\* creates a JobRun, reads the queue or changes a video, a transcript or an
\* object: the process stays where it was; when at most the transcription
\* provider is unreachable, the run can start, and a run goes on only after
\* a check that returned
C22_ReadinessCheck ==
  /\ [][\A w \in Procs :
          (pc[w] = "idle" /\ CriticalDown)
            => /\ pc'[w] = "idle"
               /\ jobRun'[w] \in {jobRun[w], [NoRun EXCEPT !.escaped = TRUE]}
               /\ UNCHANGED <<rows, transcripts, s3, queue, disc>>]_vars
  /\ [](\A w \in Procs :
          /\ (pc[w] = "idle" /\ ~CriticalDown) => ENABLED StartRun(w)
          /\ pc[w] # "idle" => /\ ~CriticalDown
                               /\ sentinel.outcome \in SentinelReturns)

\* the object storage alone is unreachable, the check has thrown, and the
\* process has no JobRun and has touched nothing
C22_Witness ==
  /\ sentinel.up = [p \in Probes |-> p # "s3"]
  /\ sentinel.outcome = "CRITICAL: AWS S3 unreachable"
  /\ jobRun[1] = [NoRun EXCEPT !.escaped = TRUE]
  /\ pc[1] = "idle"
  /\ rows = [v \in Videos |-> AbsentRow]


\* the videos the queue query of process w selects from the table
Unfinished(w) ==
  {v \in Videos :
     /\ rows[v].present
     /\ SourceOf(v) = src[w]
     /\ rows[v].status # COMPLETED
     /\ rows[v].status # PERMANENT_FAILURE
     /\ rows[v].retry_count < maxRetries}

C24_RetryCountMonotone ==
  [][\A v \in Videos :
       rows'[v].retry_count # rows[v].retry_count
         => \/ rows'[v].retry_count = rows[v].retry_count + 1
            \/ /\ rows'[v].retry_count = 0
               /\ ResetRetryCount(v)]_vars

\* a video whose failure handleFailure recorded, with its retry_count
\* incremented, and whose retry_count was then reset
C24_Witness ==
  \E v \in Videos :
    /\ rows[v].status = FAILED
    /\ rows[v].last_error = "error"
    /\ rows[v].retry_count = 0


\* C25 as stated: upsertDiscoveredVideo on a video that exists leaves its
\* updated_at, so a video that resetStuckVideos would reset before the upsert
\* is one it would still reset after the upsert
C25_RediscoveryKeepsStuck ==
  [][\A w \in Procs :
       (pc[w] = "upsert" /\ pc'[w] \in {"upsert", "getQueue"})
         => LET v == Head(disc[w]).id
            IN /\ rows[v].present => rows'[v].updated_at = rows[v].updated_at
               /\ v \in StuckVideos(rows, SourceOf(v), recoverThresholdHours,
                                    now)
                    => v \in StuckVideos(rows', SourceOf(v),
                                         recoverThresholdHours, now)]_vars


\* C26 as stated: a step that makes a video completed finds it transcribing
C26_CompletedOnlyFromTranscribing ==
  [][\A v \in Videos :
       (rows'[v].status = COMPLETED /\ rows[v].status # COMPLETED)
         => rows[v].status = TRANSCRIBING]_vars


\* the text names "HTTP Error 400", 401, 403, 404 or 410
NamesFatalMarker(msg) ==
  \E i \in 1..(Len(msg) - 2) :
    /\ MatchesAt(msg, <<"http", "error">>, i)
    /\ IsNum(msg[i + 2])
    /\ \E c \in MarkerCodes : DigitsStartWith(msg[i + 2].n, c)

\* C27 as stated: an error that carries no status code and whose text names
\* none after "status" is fatal when its text names one of the markers
\* "HTTP Error 400", 401, 403, 404 or 410, whatever else the text holds;
\* otherwise it is retryable exactly when its text holds one of the
\* network substrings
C27_MarkerPrecedence ==
  (cls.result # "none" /\ CarriedCode(cls.error) = 0)
    => cls.result =
         IF NamesFatalMarker(cls.error.message) THEN "fatal"
         ELSE IF \E netErr \in networkErrors :
                   ContainsWords(cls.error.message, netErr)
              THEN "retryable"
         ELSE "fatal"


\* C28 as stated: while the fetch process of a transfer runs, the transfer's
\* signal listeners are attached, so that a signal to the host kills the
\* process; once the transfer has returned or thrown none of them is
\* attached; and the step taken on a signal leaves no process running
C28_HandlersWhileInFlight ==
  /\ [](xf.child = "running" => xf.handlers)
  /\ [](xf.pc \in {"returned", "thrown"} => ~xf.handlers)
  /\ [][(xf.handlers /\ xf'.killSent /\ ~xf.killSent)
          => xf'.child # "running"]_vars


\* the stages of a run before its loop
Stages == {"recover", "discover", "upsert", "getQueue"}

\* C29 as stated: in a run in which recovery, discovery or the queue read
\* has thrown, no item is handed to the pipeline, and when the run has ended
\* its JobRun is failed, finalized once with the message of that error as
\* error summary, and that error is the one that left runScheduledJob
C29_RunFatalPropagation ==
  \A w \in Procs :
    LET r == jobRun[w]
    IN r.caught \in Stages
         => /\ r.handed = <<>>
            /\ r.processed = 0
            /\ pc[w] = "idle"
                 => /\ r.status = "failed"
                    /\ r.errorSummary = r.caught
                    /\ r.finalized = 1
                    /\ r.rethrown = r.caught


\* C30 as stated: the finalizing update of a JobRun is never applied a
\* second time, and a run that created a JobRun and has ended has applied
\* it once
C30_FinalizedOnce ==
  \A w \in Procs :
    LET r == jobRun[w]
    IN /\ r.finalized <= 1
       /\ (pc[w] = "idle" /\ r.status # "none") => r.finalized = 1


\* C31 as stated: the recovery step of a run started with the option
\* stuckThresholdHours = H sets to failed exactly the downloading and
\* transcribing videos of its source last updated more than H hours ago,
\* and leaves every other row
C31_ConfiguredThreshold ==
  [][\A w \in Procs :
       (pc[w] = "recover" /\ pc'[w] = "discover")
         => LET stale == StuckVideos(rows, src[w],
                                     jobRun[w].stuckThresholdHours, now)
            IN \A v \in Videos :
                 IF v \in stale THEN rows'[v].status = FAILED
                 ELSE rows'[v] = rows[v]]_vars

\* C32: when the claim into downloading returns no row, the claim step and
\* the lookup that follows change no row, object or transcript; the lookup
\* goes on to the transcription stage with the stored key exactly when the
\* row exists with a key and a status among downloaded, transcribing and
\* completed, and otherwise ends the item as processed, with no transfer
\* and no failure handling
C32_FailedClaimLeavesItem ==
  [][\A w \in Procs :
       /\ (pc[w] = "claimDownloading" /\ pc'[w] = "findById")
            => /\ rows' = rows /\ s3' = s3 /\ transcripts' = transcripts
               /\ ~holds'[w]
       /\ (pc[w] = "findById" /\ pc'[w] # "findById")
            => LET video == rows[cur[w]]
               IN /\ rows' = rows /\ s3' = s3 /\ transcripts' = transcripts
                  /\ IF /\ video.present
                        /\ video.s3_key # NULL
                        /\ video.status \in {DOWNLOADED, TRANSCRIBING, COMPLETED}
                     THEN /\ pc'[w] = "claimTranscribing"
                          /\ s3Url'[w] = video.s3_key
                     ELSE /\ pc'[w] = "incrementProcessed"
                          /\ s3Url'[w] = NULL]_vars

\* C32 witness: a pipeline call on a completed video with a key went from
\* the failed claim straight to the transcription stage without a write
C32_Witness ==
  \E w \in Procs :
    /\ pc[w] = "claimTranscribing"
    /\ path[w] = <<COMPLETED>>
    /\ s3Url[w] = rows[cur[w]].s3_key
    /\ s3Url[w] # NULL

C34_LocatorPresentAndKept ==
  /\ [](\A v \in Videos :
          (rows[v].present
             /\ rows[v].status \in {DOWNLOADED, TRANSCRIBING, COMPLETED})
            => rows[v].s3_key # NULL)
  /\ [][\A v \in Videos :
          (rows[v].present /\ rows[v].s3_key # NULL)
            => (rows'[v].present /\ rows'[v].s3_key # NULL)]_vars

\* C34 witness: a video that has failed at least once and was reset by the
\* stuck recovery is being transcribed again and still carries its s3_key
C34_Witness ==
  \E v \in Videos :
    /\ rows[v].present
    /\ rows[v].status = TRANSCRIBING
    /\ rows[v].retry_count > 0
    /\ rows[v].s3_key # NULL
    /\ \E w \in Procs : recoveredCount[w] > 0

\* C35: the stuck reset of a run changes nothing but status, last_error and
\* updated_at of the rows it resets, so their retry_count and s3_key stay
\* as they were, and it changes no other row
C35_ResetKeepsRetryAndLocator ==
  [][\A w \in Procs :
       (pc[w] = "recover" /\ pc'[w] = "discover")
         => \A v \in Videos :
              /\ rows'[v].retry_count = rows[v].retry_count
              /\ rows'[v].s3_key = rows[v].s3_key
              /\ rows'[v].present = rows[v].present
              /\ rows'[v].title = rows[v].title
              /\ rows'[v] # rows[v] => rows'[v].status = FAILED]_vars

\* C35 witness: a run has just reset a video that had failed before and
\* has an s3_key; the row is failed with its count and key in place
C35_Witness ==
  \E w \in Procs : \E v \in Videos :
    /\ pc[w] = "discover"
    /\ recoveredCount[w] > 0
    /\ rows[v].status = FAILED
    /\ rows[v].last_error = "Auto-Reset"
    /\ rows[v].updated_at = now
    /\ rows[v].retry_count > 0
    /\ rows[v].s3_key # NULL

\* C36 as stated: in a run that ends without a run-fatal error the processed
\* and failed counters add up to the number of queued items, and an item
\* step that counts a failure never counts the same item as processed
C36_CountersPartitionQueue ==
  /\ [](\A w \in Procs :
          LET r == jobRun[w]
          IN (r.status \in {"completed", "completed_with_errors"}
                /\ ~r.escaped)
               => r.processed + r.failed = Len(r.got))
  /\ [][\A w \in Procs :
          (jobRun[w].status = "running" /\ jobRun'[w].status = "running"
             /\ ~jobRun'[w].escaped)
            => (jobRun'[w].processed - jobRun[w].processed)
                 + (jobRun'[w].failed - jobRun[w].failed) <= 1]_vars

\* C37 as stated: in every reachable state a completed video has an object
\* at its destination key
C37_CompletedHasObject ==
  \A v \in Videos :
    (rows[v].present /\ rows[v].status = COMPLETED) => s3[v] # "absent"

\* C39: whenever a process whose last own write in the current pipeline
\* call is a claim (downloading or transcribing) leaves the call, the step
\* that leaves it is an update out of the in-progress status: the finalize
\* to downloaded, the fast track or the finalize to completed, or the
\* failure handler; the update either writes downloaded, completed, failed
\* or permanent_failure or is refused by its guard and leaves the row
C39_ClaimReleasedByHolder ==
  [][\A w \in Procs :
       (/\ Len(path[w]) > 1
        /\ Last(path[w]) \in {DOWNLOADING, TRANSCRIBING}
        /\ pc[w] \notin {"incrementProcessed", "incrementFailed"}
        /\ pc'[w] \in {"incrementProcessed", "incrementFailed"})
         => /\ pc[w] \in {"finalizeDownloaded", "fastTrack",
                          "finalizeCompleted", "handleFailure"}
            /\ \/ rows'[cur[w]] = rows[cur[w]]
               \/ /\ rows'[cur[w]].status
                       \in {DOWNLOADED, COMPLETED, FAILED, PERMANENT_FAILURE}
                  /\ Last(path'[w]) = rows'[cur[w]].status]_vars

\* C39 witness: a process claimed its video, the stuck recovery of another
\* run took the claim away, and the process has left the call through its
\* failure handler, whose update was refused
C39_Witness ==
  \E w \in Procs :
    /\ pc[w] = "incrementFailed"
    /\ Len(path[w]) > 1
    /\ Last(path[w]) \in {DOWNLOADING, TRANSCRIBING}
    /\ rows[cur[w]].status = FAILED
    /\ rows[cur[w]].last_error = "Auto-Reset"

\* C40 as stated: the validation at the exit of a fetch process that ended
\* with code 0 after producing at least MIN_VIDEO_SIZE bytes accepts the
\* transfer, however many of those bytes the upload has reported by then
C40_ValidTransferAccepted ==
  [][(/\ xf.pc = "uploading"
      /\ ~xf.closeSeen
      /\ xf'.closeSeen
      /\ xf.code = 0
      /\ xf.produced >= MIN_VIDEO_SIZE)
       => (xf'.exitOk /\ xf'.pc = "uploading")]_vars

====
